---- MODULE Spec2Model ----
(***************************************************************************)
(* Face detection pipeline of the photo application backend:               *)
(*   backend/src/peopleDetector.js  detectFacesScrfd, detectPeopleInImage  *)
(*   backend/src/index.js           POST /photos, /photos/:id/faces:detect,*)
(*                                  /photos/:id/detect-people              *)
(*                                                                         *)
(* Numbers.  JavaScript numbers are modelled as records [nan, v]: nan says *)
(* the value is NaN, v is an exact integer otherwise.  Raw detector boxes  *)
(* are whole pixels of the 640x640 letterbox canvas.  The inverse          *)
(* letterbox transform divides by scale = Target / max(1, origW, origH),   *)
(* so image coordinates are kept exactly in sub-pixel units of 1/Target    *)
(* pixel (one pixel = Target units).  Scores are kept in hundredths.       *)
(***************************************************************************)
EXTENDS Integers, Sequences, FiniteSets, TLC

\* ------------------------------------------------------------ constants
Target == 640             \* const target = 640
MaxFaces == 150           \* if (candidates.length >= 150) break
ConfThreshold == 30       \* if (s < 0.3) continue      (hundredths)
NmsTenths == 4            \* spec: NMS IoU threshold ~0.4 (tenths)
PreviewBox == 1600        \* resize({ width: 1600, height: 1600, fit: 'inside' })

\* ------------------------------------------------------------ bounds
MaxTail == 1              \* anchors following the repeated run in a raw tensor

\* ------------------------------------------------------------ numbers
Num(x) == [nan |-> FALSE, v |-> x]
NaN == [nan |-> TRUE, v |-> 0]

IntMin(x, y) == IF x <= y THEN x ELSE y
IntMax(x, y) == IF x >= y THEN x ELSE y

\* Math.min / Math.max: NaN if either argument is NaN
MathMin(a, b) == IF a.nan \/ b.nan THEN NaN ELSE Num(IntMin(a.v, b.v))
MathMax(a, b) == IF a.nan \/ b.nan THEN NaN ELSE Num(IntMax(a.v, b.v))
\* a - b, a + b
Minus(a, b) == IF a.nan \/ b.nan THEN NaN ELSE Num(a.v - b.v)
Plus(a, b) == IF a.nan \/ b.nan THEN NaN ELSE Num(a.v + b.v)
\* a * k for an exact integer k
Times(a, k) == IF a.nan THEN NaN ELSE Num(a.v * k)
\* a < b, a <= b: false when either side is NaN
Lt(a, b) == ~a.nan /\ ~b.nan /\ a.v < b.v
Le(a, b) == ~a.nan /\ ~b.nan /\ a.v <= b.v

\* Math.round(p / q) for integers p and q > 0: floor(p/q + 1/2)
RoundDiv(p, q) == (2 * p + q) \div (2 * q)
\* Math.round of a value held in sub-pixel units, giving whole pixels
MathRound(a) == IF a.nan THEN NaN ELSE Num(RoundDiv(a.v, Target))

\* ------------------------------------------------------------ letterbox
\* scale = Math.min(target / Math.max(1, origW), target / Math.max(1, origH))
\*       = Target / ScaleDen(origW, origH), an exact rational that is never 0,
\* so (scale || 1) is scale.
ScaleDen(origW, origH) == IntMax(1, IntMax(origW, origH))

\* newW, newH, padX, padY of the letterbox for an origW x origH image
LetterboxGeometry(origW, origH) ==
  LET den == ScaleDen(origW, origH)
      newW == IntMax(1, RoundDiv(origW * Target, den))
      newH == IntMax(1, RoundDiv(origH * Target, den))
  IN [origW |-> origW, origH |-> origH, den |-> den,
      padX |-> (Target - newW) \div 2,
      padY |-> (Target - newH) \div 2]

\* (c - pad) / (scale || 1), in sub-pixel units
MapBack(c, pad, den) == Times(Minus(c, Num(pad)), den)

\* Math.max(0, Math.min(x, bound)) with bound in whole pixels
Clamp(x, bound) == MathMax(Num(0), MathMin(x, Num(bound * Target)))

\* ------------------------------------------------------------ decoder
\* scores[i] ?? 0 (i counted from 0)
ScoreAt(scores, i) == IF i + 1 <= Len(scores) THEN scores[i + 1] ELSE Num(0)

\* the box of anchor i after mapping back and clamping (loop body, lines 103-123)
AnchorBox(bboxes, i, g) ==
  LET x1 == bboxes[i * 4 + 1]
      y1 == bboxes[i * 4 + 2]
      x2 == bboxes[i * 4 + 3]
      y2 == bboxes[i * 4 + 4]
      lx == MathMin(x1, x2)
      ly == MathMin(y1, y2)
      rx == MathMax(x1, x2)
      by == MathMax(y1, y2)
      left == Clamp(MapBack(lx, g.padX, g.den), g.origW)
      top == Clamp(MapBack(ly, g.padY, g.den), g.origH)
      right == Clamp(MapBack(rx, g.padX, g.den), g.origW)
      bottom == Clamp(MapBack(by, g.padY, g.den), g.origH)
  IN [left |-> left, top |-> top,
      width |-> MathMax(Num(0), Minus(right, left)),
      height |-> MathMax(Num(0), Minus(bottom, top))]

\* if (s < 0.3) continue
BelowThreshold(s) == Lt(s, Num(ConfThreshold))

\* if (w <= 1 || h <= 1) continue
Degenerate(b) == Le(b.width, Num(Target)) \/ Le(b.height, Num(Target))

\* mutant of CapReached: the comparison written > instead of >=
CapReachedLate(candidates) == Len(candidates) > MaxFaces

\* if (candidates.length >= 150) break
CapReached(candidates) == Len(candidates) >= MaxFaces

\* One iteration of the loop  for (let i = 0; i < n; i++) { ... }  on the loop
\* state st = [candidates, broke]; broke records that break was executed.
LoopBody(i, scores, bboxes, g, st) ==
  IF st.broke THEN st
  ELSE LET s == ScoreAt(scores, i)
           b == AnchorBox(bboxes, i, g)
       IN IF BelowThreshold(s) \/ Degenerate(b) THEN st
          ELSE LET pushed == Append(st.candidates,
                               [left |-> b.left, top |-> b.top,
                                width |-> b.width, height |-> b.height,
                                score |-> s, anchor |-> i])
               IN [candidates |-> pushed, broke |-> CapReached(pushed)]

\* Iterations lo, lo+1, ..., hi-1 of the loop in order, starting from st.
\* (The range is halved so that the evaluation depth stays logarithmic.)
RECURSIVE LoopRange(_, _, _, _, _, _)
LoopRange(lo, hi, scores, bboxes, g, st) ==
  IF hi <= lo THEN st
  ELSE IF hi = lo + 1 THEN LoopBody(lo, scores, bboxes, g, st)
  ELSE LET mid == (lo + hi) \div 2
           first == LoopRange(lo, mid, scores, bboxes, g, st)
       IN IF first.broke THEN first
          ELSE LoopRange(mid, hi, scores, bboxes, g, first)

\* const candidates = []; for (...) {...}; return candidates
DecodeLoop(n, scores, bboxes, g) ==
  LoopRange(0, n, scores, bboxes, g, [candidates |-> <<>>, broke |-> FALSE]).candidates

\* Which tensor names the regular expressions /score/i and /bbox|boxes/i
\* match, over the names that occur in RawOutputs.
IsScoreName(nm) == nm \in {"scores", "score_8", "score_16"}
IsBboxName(nm) == nm \in {"bboxes", "bbox_8", "bbox_16", "boxes"}

\* outNames.filter(pred): the names of outs, in key order, that satisfy pred
RECURSIVE FilterNames(_, _)
FilterNames(outs, score) ==
  IF outs = <<>> THEN <<>>
  ELSE LET nm == Head(outs).name
           rest == FilterNames(Tail(outs), score)
       IN IF (score /\ IsScoreName(nm)) \/ (~score /\ IsBboxName(nm))
            THEN <<nm>> \o rest ELSE rest

\* outputs[name].data
TensorData(outs, nm) ==
  LET i == CHOOSE j \in 1..Len(outs) : outs[j].name = nm IN outs[i].data

\* if (scoreNames.length === 0 || bboxNames.length === 0) return []
HeadsAbsent(outs) ==
  FilterNames(outs, TRUE) = <<>> \/ FilterNames(outs, FALSE) = <<>>

\* lines 87-128: the candidate list computed from the detector outputs
Decode(outs, origW, origH) ==
  IF HeadsAbsent(outs) THEN <<>>
  ELSE LET scores == TensorData(outs, FilterNames(outs, TRUE)[1])
           bboxes == TensorData(outs, FilterNames(outs, FALSE)[1])
           n == Len(bboxes) \div 4
       IN DecodeLoop(n, scores, bboxes, LetterboxGeometry(origW, origH))

\* detectPeopleInImage's boxes.map(...): each field rounded on its own, score || 0
RoundBox(b) ==
  [left |-> MathRound(b.left), top |-> MathRound(b.top),
   width |-> MathRound(b.width), height |-> MathRound(b.height),
   score |-> IF b.score.nan \/ b.score.v = 0 THEN Num(0) ELSE b.score]

RoundBoxes(boxes) == [k \in 1..Len(boxes) |-> RoundBox(boxes[k])]

\* ------------------------------------------------------------ inputs
\* One raw anchor of the detector output: a score and a box x1,y1,x2,y2 in
\* letterbox pixels.  The set covers: a plain box at three scores (one below
\* the threshold), the same box with its corners swapped, boxes lying wholly
\* or partly in the padding or beyond the canvas, a thin box, a box whose
\* mapped edges fall on half pixels, a NaN coordinate and a NaN score.
Anchor(s, x1, y1, x2, y2) ==
  [score |-> s, box |-> <<Num(x1), Num(y1), Num(x2), Num(y2)>>]

PlainHigh == Anchor(Num(90), 100, 100, 300, 300)
PlainMid == Anchor(Num(50), 100, 100, 300, 300)
Swapped == Anchor(Num(50), 300, 300, 100, 100)
BelowThr == Anchor(Num(20), 100, 100, 300, 300)
InPadding == Anchor(Num(50), -20, 0, 700, 40)
PastCanvas == Anchor(Num(60), 500, 500, 700, 700)
Thin == Anchor(Num(50), 100, 100, 101, 300)
HalfPixel == Anchor(Num(70), 2, 100, 700, 300)
NanBox == [score |-> Num(50), box |-> <<NaN, Num(100), Num(300), Num(300)>>]
NanScore == [score |-> NaN, box |-> <<Num(200), Num(200), Num(400), Num(400)>>]

AnchorSet ==
  { PlainHigh, PlainMid, Swapped, BelowThr, InPadding, PastCanvas, Thin,
    HalfPixel, NanBox, NanScore }

\* the anchors a crowded scene repeats, and how often: one short of the cap, the cap
RunAnchors == { PlainMid, BelowThr, Thin }
RunLens == { MaxFaces - 1, MaxFaces }

Run(a, k) == [j \in 1..k |-> a]
SeqsUpTo(S, n) == UNION { [1..k -> S] : k \in 0..n }

\* anchor lists: a run of one anchor followed by at most MaxTail others
AnchorSeqs ==
  SeqsUpTo(AnchorSet, MaxTail)
  \cup { Run(a, k) \o t : a \in RunAnchors, k \in RunLens, t \in SeqsUpTo(AnchorSet, MaxTail) }
ShortAnchorSeqs == SeqsUpTo(AnchorSet, MaxTail) \ {<<>>}

ScoresOf(as) == [j \in 1..Len(as) |-> as[j].score]
BboxesOf(as) == [j \in 1..(4 * Len(as)) |-> as[((j - 1) \div 4) + 1].box[((j - 1) % 4) + 1]]
Tensor(nm, d) == [name |-> nm, data |-> d]
DropLast(q) == SubSeq(q, 1, Len(q) - 1)

\* What session.run may resolve to, as the list of named tensors in key order.
RawOutputs ==
  \* one score head and one box head
  { <<Tensor("scores", ScoresOf(as)), Tensor("bboxes", BboxesOf(as))>> : as \in AnchorSeqs }
  \* the score tensor one entry shorter than the box tensor
  \cup { <<Tensor("scores", DropLast(ScoresOf(as))), Tensor("bboxes", BboxesOf(as))>> :
           as \in ShortAnchorSeqs }
  \* a box tensor whose length is not a multiple of 4
  \cup { <<Tensor("boxes", Append(BboxesOf(as), Num(7))), Tensor("score_8", ScoresOf(as))>> :
           as \in ShortAnchorSeqs }
  \* per-stride heads: the first score and the first box tensor are used
  \cup { <<Tensor("score_8", ScoresOf(as)), Tensor("score_16", <<Num(90)>>),
           Tensor("bbox_8", BboxesOf(as)), Tensor("kps_8", <<Num(1)>>),
           Tensor("bbox_16", <<Num(0), Num(0), Num(640), Num(640)>>)>> :
           as \in ShortAnchorSeqs }
  \* heads missing or named otherwise
  \cup { <<Tensor("output0", ScoresOf(as)), Tensor("boxes", BboxesOf(as))>> :
           as \in ShortAnchorSeqs }
  \cup { <<Tensor("score_8", ScoresOf(as)), Tensor("kps_8", BboxesOf(as))>> :
           as \in ShortAnchorSeqs }
  \cup { <<Tensor("448", ScoresOf(as)), Tensor("output0", BboxesOf(as))>> :
           as \in ShortAnchorSeqs }
  \cup { <<>> }

\* The file at absImagePath: what sharp(absImagePath).metadata() gives.
\* readable = FALSE: sharp rejects the file; width = 0: metadata without size.
Image(r, w, h) == [readable |-> r, width |-> w, height |-> h]
Images == { Image(TRUE, 800, 600), Image(TRUE, 600, 800), Image(TRUE, 320, 240),
            Image(TRUE, 0, 0), Image(FALSE, 0, 0) }

\* ------------------------------------------------------------ state
VARIABLES
  \* peopleDetector.js: one call of detectFacesScrfd / detectPeopleInImage
  modelExists,    \* fs.existsSync(modelPath)
  scrfdSession,   \* let scrfdSession = null
  dpc,            \* position of the call
  entry,          \* "faces": detectFacesScrfd called directly; "people": through detectPeopleInImage
  image,          \* the file at absImagePath
  origW, origH,   \* const origW = meta.width || 0, origH = meta.height || 0
  outputs,        \* const outputs = await session.run(...)
  ret,            \* how detectFacesScrfd ended: [threw, value]
  cause,          \* what failed inside the call, "none" if nothing did
  people,         \* what detectPeopleInImage resolved to
  \* index.js: the database, and the requests being served
  photos,         \* table photos, row i has id i
  faces,          \* table faces, in insertion order
  req,            \* per request: route, position, parameters and locals
  resp,           \* per request: the response sent, status 0 while none is
  det,            \* per request: the promise of its detection call
  \* peopleDetector.js: concurrent callers of getScrfd, getArcface, getOsnet
  handle,         \* per model: scrfdSession / arcfaceSession / osnetSession, 0 is null
  created,        \* per model: how many times InferenceSession.create resolved
  modelFiles,     \* per model: fs.existsSync(modelPath)
  caller,         \* per caller: position, model asked for, session returned
  \* db.js: tables the detection requests read but never write
  gallery,        \* table person_embeddings
  \* index.js: share links, person sessions and the routes they scope
  now,            \* Date.now(), milliseconds since the process started
  ticks,          \* how many times the clock has been advanced
  currentEvent,   \* settings.current_event_id
  passwordHash,   \* settings.person_view_password_hash, "" is NULL
  photoRows,      \* table photos: id, event_id, description
  photoSeq,       \* the last id handed out by photos.id SERIAL
  tags,           \* table tags: id, name, event_id
  photoTags,      \* table photo_tags: <<photo_id, tag_id>>
  shareLinks,     \* table share_links, row i has id i and token i
  personSessions, \* const personSessions = new Map(), by session id
  failedLoginMap, \* const failedLoginMap = new Map(): key -> rate object, 0 is absent
  rateObjs,       \* the rate objects the map and the suspended logins refer to
  cookies,        \* per client: the person_session cookie it holds, 0 is none
  logins,         \* the POST /share/:token/login handlers in progress
  attempts,       \* how many logins have arrived
  guesses,        \* per key: the wrong passwords compared since the last success
  events,         \* table events: id, name
  eventSeq,       \* the last id handed out by events.id SERIAL
  tagSeq,         \* the last id handed out by tags.id SERIAL
  linkReqs,       \* the POST /share-links and /share-links/bulk handlers
  linkSeq,        \* share_links.id SERIAL: the last id handed out
  last            \* the request answered last: what it was and what it did

decVars == <<modelExists, scrfdSession, dpc, entry, image, origW, origH, outputs,
             ret, cause, people>>

apiVars == <<photos, faces, req, resp, det>>

sesVars == <<handle, created, modelFiles, caller>>

\* the variables of the other parts of the program, left alone by the
\* detector call and by the detection requests
webVars == <<now, ticks, currentEvent, passwordHash, photoRows, photoSeq, tags,
             photoTags, shareLinks, personSessions, failedLoginMap, rateObjs,
             cookies, logins, attempts, guesses, events, eventSeq, tagSeq, linkReqs, linkSeq,
             last>>

\* the tables and handlers of the event and share link administration
adminVars == <<events, eventSeq, tagSeq, linkReqs, linkSeq>>

extVars == <<sesVars, gallery, webVars>>

vars == <<decVars, apiVars, extVars>>

NoRet == [threw |-> FALSE, value |-> <<>>]
NoPeople == [set |-> FALSE, boxes |-> <<>>, imageWidth |-> 0, imageHeight |-> 0]
NoImage == Image(FALSE, 0, 0)

\* ------------------------------------------------------------ detectFacesScrfd
\* mutant of CatchReturn: the handler logs and rethrows
CatchRethrow == [threw |-> TRUE, value |-> <<>>]

\* catch (e) { console.error(...); return []; }   (lines 129-132)
CatchReturn == [threw |-> FALSE, value |-> <<>>]
\* return candidates / return []   (lines 92, 128)
Return(list) == [threw |-> FALSE, value |-> list]

\* detectPeopleInImage's catch: { boxes: [], imageWidth: 0, imageHeight: 0 }
PeopleCatch == [set |-> TRUE, boxes |-> <<>>, imageWidth |-> 0, imageHeight |-> 0]

\* an exception raised inside detectFacesScrfd's try block, for the reason why
Throw(why) ==
  /\ ret' = CatchReturn
  /\ cause' = why
  /\ dpc' = "returned"

InitDec ==
  /\ modelExists \in BOOLEAN
  /\ scrfdSession = "null"
  /\ dpc = "idle"
  /\ entry = "faces"
  /\ image = NoImage
  /\ origW = 0 /\ origH = 0
  /\ outputs = <<>>
  /\ ret = NoRet
  /\ cause = "none"
  /\ people = NoPeople

\* a caller invokes detectFacesScrfd(absImagePath)
CallDetectFaces ==
  /\ dpc = "idle"
  /\ \E img \in Images : image' = img
  /\ entry' = "faces"
  /\ dpc' = "getScrfd"
  /\ UNCHANGED <<modelExists, scrfdSession, origW, origH, outputs, ret, cause, people>>
  /\ UNCHANGED <<apiVars, extVars>>

\* a caller invokes detectPeopleInImage(absImagePath)
CallDetectPeople ==
  /\ dpc = "idle"
  /\ \E img \in Images : image' = img
  /\ entry' = "people"
  /\ dpc' = "peopleMeta"
  /\ UNCHANGED <<modelExists, scrfdSession, origW, origH, outputs, ret, cause, people>>
  /\ UNCHANGED <<apiVars, extVars>>

\* detectPeopleInImage: const meta = await sharp(absImagePath).metadata()
PeopleMetadata ==
  /\ dpc = "peopleMeta"
  /\ IF image.readable
       THEN /\ dpc' = "getScrfd"
            /\ UNCHANGED <<people, cause>>
       ELSE /\ people' = PeopleCatch
            /\ cause' = "image"
            /\ dpc' = "done"
  /\ UNCHANGED <<modelExists, scrfdSession, entry, image, origW, origH, outputs, ret>>
  /\ UNCHANGED <<apiVars, extVars>>

\* const session = await getScrfd()   (lines 9-15, 64)
GetScrfd ==
  /\ dpc = "getScrfd"
  /\ IF scrfdSession # "null"
       THEN /\ dpc' = "metadata"
            /\ UNCHANGED <<scrfdSession, ret, cause>>
       ELSE IF ~modelExists
         THEN /\ Throw("unavailable")
              /\ UNCHANGED scrfdSession
         ELSE \/ /\ scrfdSession' = "session"      \* InferenceSession.create resolved
                 /\ dpc' = "metadata"
                 /\ UNCHANGED <<ret, cause>>
              \/ /\ Throw("unavailable")           \* InferenceSession.create rejected
                 /\ UNCHANGED scrfdSession
  /\ UNCHANGED <<modelExists, entry, image, origW, origH, outputs, people>>
  /\ UNCHANGED <<apiVars, extVars>>

\* const meta = await sharp(absImagePath).metadata()   (lines 66-74)
SharpMetadata ==
  /\ dpc = "metadata"
  /\ IF image.readable
       THEN /\ origW' = image.width
            /\ origH' = image.height
            /\ dpc' = "resize"
            /\ UNCHANGED <<ret, cause>>
       ELSE /\ Throw("image")
            /\ UNCHANGED <<origW, origH>>
  /\ UNCHANGED <<modelExists, scrfdSession, entry, image, outputs, people>>
  /\ UNCHANGED <<apiVars, extVars>>

\* sharp(...).resize(...).raw().toBuffer(): resolves or rejects   (lines 76-84)
SharpResize ==
  /\ dpc = "resize"
  /\ \/ /\ dpc' = "run"
        /\ UNCHANGED <<ret, cause>>
     \/ Throw("image")
  /\ UNCHANGED <<modelExists, scrfdSession, entry, image, origW, origH, outputs, people>>
  /\ UNCHANGED <<apiVars, extVars>>

\* const outputs = await session.run(...): resolves or rejects   (line 85)
SessionRun ==
  /\ dpc = "run"
  /\ \/ /\ \E outs \in RawOutputs : outputs' = outs
        /\ dpc' = "decode"
        /\ UNCHANGED <<ret, cause>>
     \/ /\ Throw("inference")
        /\ UNCHANGED outputs
  /\ UNCHANGED <<modelExists, scrfdSession, entry, image, origW, origH, people>>
  /\ UNCHANGED <<apiVars, extVars>>

\* lines 87-128: select the heads, decode, return candidates
DecodeOutputs ==
  /\ dpc = "decode"
  /\ ret' = Return(Decode(outputs, origW, origH))
  /\ dpc' = "returned"
  /\ UNCHANGED <<modelExists, scrfdSession, entry, image, origW, origH, outputs,
                 cause, people>>
  /\ UNCHANGED <<apiVars, extVars>>

\* detectFacesScrfd has settled; detectPeopleInImage maps the boxes (lines 138-152)
Settle ==
  /\ dpc = "returned"
  /\ dpc' = "done"
  /\ IF entry = "people"
       THEN people' = IF ret.threw THEN PeopleCatch
                      ELSE [set |-> TRUE, boxes |-> RoundBoxes(ret.value),
                            imageWidth |-> image.width, imageHeight |-> image.height]
       ELSE UNCHANGED people
  /\ UNCHANGED <<modelExists, scrfdSession, entry, image, origW, origH, outputs,
                 ret, cause>>
  /\ UNCHANGED <<apiVars, extVars>>

\* the caller has its answer; the process serves the next call
NextCall ==
  /\ dpc = "done"
  /\ dpc' = "idle"
  /\ entry' = "faces" /\ image' = NoImage
  /\ origW' = 0 /\ origH' = 0 /\ outputs' = <<>>
  /\ ret' = NoRet /\ cause' = "none" /\ people' = NoPeople
  /\ UNCHANGED <<modelExists, scrfdSession>>
  /\ UNCHANGED <<apiVars, extVars>>

NextDec ==
  \/ CallDetectFaces \/ CallDetectPeople \/ PeopleMetadata \/ GetScrfd
  \/ SharpMetadata \/ SharpResize \/ SessionRun \/ DecodeOutputs \/ Settle
  \/ NextCall


\* ------------------------------------------------------------ bounds (requests)
MaxReqs == 2              \* requests served in one behaviour

\* ------------------------------------------------------------ index.js: data
Reqs == 1..MaxReqs

\* sharp(filePath).resize({ width: 1600, height: 1600, fit: 'inside' }): the
\* largest size of the same aspect ratio inside 1600 x 1600; sharp enlarges
\* smaller images too (withoutEnlargement defaults to false).
PreviewSize(w, h) ==
  IF w >= h THEN <<PreviewBox, IntMax(1, RoundDiv(h * PreviewBox, w))>>
  ELSE <<IntMax(1, RoundDiv(w * PreviewBox, h)), PreviewBox>>

\* the files a client uploads: their pixel sizes
UploadSizes == { <<800, 600>>, <<3200, 2400>> }

\* INSERT INTO photos (filename, ..., preview_filename, ..., width, height, ...):
\* stored says width and height are not NULL; file and preview are the images
\* on disk under filename and preview_filename.
PhotoRow(w, h) ==
  LET pv == PreviewSize(w, h)
  IN [stored |-> TRUE, width |-> w, height |-> h,
      file |-> Image(TRUE, w, h), onDisk |-> TRUE,
      hasPreview |-> TRUE, preview |-> Image(TRUE, pv[1], pv[2])]

\* a row written before the preview_filename, width and height columns were
\* added (db.js ALTER TABLE ... ADD COLUMN IF NOT EXISTS): those are NULL
LegacyRow(disk) ==
  [stored |-> FALSE, width |-> 0, height |-> 0,
   file |-> Image(TRUE, 800, 600), onDisk |-> disk,
   hasPreview |-> FALSE, preview |-> NoImage]

\* const fileName = row.preview_filename || row.filename
DetectionFile(row) == IF row.hasPreview THEN row.preview ELSE row.file

\* JSON.stringify(x) stored as JSONB and read back: NaN becomes null, which
\* JavaScript arithmetic and comparison treat as 0; finite numbers are kept
JsonNull == [nan |-> FALSE, v |-> 0, isNull |-> TRUE]
JsonNumber(x) == IF x.nan THEN JsonNull ELSE x

\* JSON.stringify({ left: b.left, top: b.top, width: b.width, height: b.height })
JsonBbox(b) ==
  [left |-> JsonNumber(b.left), top |-> JsonNumber(b.top),
   width |-> JsonNumber(b.width), height |-> JsonNumber(b.height)]

\* mutant of FaceRow: the INSERT also fills recognized_tag_id
FaceRowTagged(id, photoId, b, by) ==
  [id |-> id, photo_id |-> photoId, bbox |-> JsonBbox(b), face_score |-> b.score,
   recognized_tag_id |-> 1, fused_score |-> JsonNull, by |-> by]

\* INSERT INTO faces (photo_id, bbox, landmarks, yaw, pitch, roll, face_score):
\* the columns the statement does not name take their defaults, so
\* recognized_tag_id (0 here) and fused_score are NULL; by names the request
\* that inserted the row
FaceRow(id, photoId, b, by) ==
  [id |-> id, photo_id |-> photoId, bbox |-> JsonBbox(b), face_score |-> b.score,
   recognized_tag_id |-> 0, fused_score |-> JsonNull, by |-> by]

\* for (const b of boxes) { INSERT ... }: one row per box, in order
RECURSIVE InsertFaces(_, _, _, _)
InsertFaces(rows, photoId, boxes, by) ==
  IF boxes = <<>> THEN rows
  ELSE InsertFaces(Append(rows, FaceRow(Len(rows) + 1, photoId, Head(boxes), by)),
                   photoId, Tail(boxes), by)

\* results.push({ id, bbox, score }) for the rows a request inserted
FaceItems(rows, by) ==
  LET mine == SelectSeq(rows, LAMBDA f : f.by = by)
  IN [k \in 1..Len(mine) |->
        [id |-> mine[k].id, bbox |-> mine[k].bbox, score |-> mine[k].face_score]]

\* GET /photos/:photoId/faces: SELECT ... FROM faces WHERE photo_id = $1
\* ORDER BY id ASC, mapped to the listed fields
ListFaces(rows, photoId) ==
  LET of == SelectSeq(rows, LAMBDA f : f.photo_id = photoId)
  IN [k \in 1..Len(of) |->
        [id |-> of[k].id, bbox |-> of[k].bbox,
         recognized_tag_id |-> of[k].recognized_tag_id, score |-> of[k].face_score,
         fused_score |-> of[k].fused_score]]

\* detectFacesScrfd(absPath) as a whole (lines 62-133): [] from the catch when
\* the session is unavailable, the image unreadable or an await rejects,
\* otherwise the decoded candidates
DetectFacesScrfd(img, available, rejects, outs) ==
  IF ~available \/ ~img.readable \/ rejects THEN CatchReturn.value
  ELSE Decode(outs, img.width, img.height)

\* detectPeopleInImage(absPath) as a whole (lines 135-153)
DetectPeopleInImage(img, list) ==
  IF ~img.readable THEN PeopleCatch
  ELSE [set |-> TRUE, boxes |-> RoundBoxes(list),
        imageWidth |-> img.width, imageHeight |-> img.height]

\* what session.run resolves to while requests are served
ApiAnchorSeqs == { <<>>, <<PlainHigh>>, <<PastCanvas>>, <<PlainHigh, HalfPixel>> }
ApiOutputs ==
  { <<Tensor("scores", ScoresOf(as)), Tensor("bboxes", BboxesOf(as))>> : as \in ApiAnchorSeqs }

\* responses
NoResp == [status |-> 0, error |-> "", count |-> 0, items |-> <<>>,
           imageWidth |-> 0, imageHeight |-> 0]
ErrorResp(st, msg) == [NoResp EXCEPT !.status = st, !.error = msg]
\* res.json({ count: results.length, items: results })
FacesResp(items) == [NoResp EXCEPT !.status = 200, !.count = Len(items), !.items = items]
\* mutant of TimeoutResp: the timeout answered like an empty detection
TimeoutRespAsEmpty == FacesResp(<<>>)
\* res.status(504).json({ error: 'Detection timeout', count: 0, items: [] })
TimeoutResp == [NoResp EXCEPT !.status = 504, !.error = "Detection timeout"]
\* res.json(result) of detect-people
PeopleResp(result) ==
  [NoResp EXCEPT !.status = 200, !.count = Len(result.boxes), !.items = result.boxes,
                 !.imageWidth = result.imageWidth, !.imageHeight = result.imageHeight]

NoReq == [route |-> "none", pc |-> "new", photoId |-> 0, boxes |-> <<>>, timedOut |-> FALSE]
NoDet == [state |-> "none", value |-> <<>>]

\* A row of person_embeddings (tag_id, embedding).  The embedding is kept as
\* the cosine similarity, in hundredths, that the spec's matching would find
\* between it and the fused embedding of a face detected in the photos.
GalleryRow(tag, sim) == [tag_id |-> tag, similarity |-> sim]

\* the galleries a deployment may hold: none, one entry close to the detected
\* faces, one entry far from them, one of each for two tags
Galleries ==
  { <<>>, <<GalleryRow(1, 92)>>, <<GalleryRow(1, 40)>>,
    <<GalleryRow(1, 40), GalleryRow(2, 92)>> }

\* no gallery
InitNoGallery == gallery = <<>>

InitApi ==
  /\ photos \in { <<>>, <<LegacyRow(TRUE)>>, <<LegacyRow(FALSE)>> }
  /\ faces = <<>>
  /\ req = [r \in Reqs |-> NoReq]
  /\ resp = [r \in Reqs |-> NoResp]
  /\ det = [r \in Reqs |-> NoDet]

\* request r arrives: requests are numbered in arrival order
Arrives(r) == req[r].pc = "new" /\ (IF r = 1 THEN TRUE ELSE req[r - 1].pc # "new")

\* the photo ids a request may name: the existing ones and one that is missing
PhotoIdsOf(rows) == 1..(Len(rows) + 1)

Done(r, route, pid, answer) ==
  /\ req' = [req EXCEPT ![r] = [@ EXCEPT !.route = route, !.pc = "done", !.photoId = pid]]
  /\ resp' = [resp EXCEPT ![r] = answer]


\* ------------------------------------------------------------ POST /photos
\* app.post('/photos', requireNoWritesInPersonScope, upload.single('photo'), ...)
\* for a request outside person scope: 400 without a file, 500 when sharp
\* rejects the file, otherwise the row is inserted with the sizes sharp read
PostPhotos(r) ==
  /\ Arrives(r)
  /\ \/ Done(r, "upload", 0, ErrorResp(400, "No file uploaded")) /\ UNCHANGED photos
     \/ Done(r, "upload", 0, ErrorResp(500, "Failed to upload photo")) /\ UNCHANGED photos
     \/ \E sz \in UploadSizes :
          /\ photos' = Append(photos, PhotoRow(sz[1], sz[2]))
          /\ Done(r, "upload", Len(photos) + 1, [NoResp EXCEPT !.status = 201])
  /\ UNCHANGED <<faces, det, decVars>>
  /\ UNCHANGED extVars

\* ------------------------------------------------------------ faces:detect
\* lines 955-972: guard, SELECT, file check, then the detection call and the
\* timer are started and the handler awaits their race
FacesDetectBegin(r) ==
  /\ Arrives(r)
  /\ \E pid \in PhotoIdsOf(photos), scoped \in BOOLEAN :
       IF scoped
         THEN Done(r, "facesDetect", pid, ErrorResp(403, "Not allowed in personal view"))
              /\ UNCHANGED det
       ELSE IF pid > Len(photos)
         THEN Done(r, "facesDetect", pid, ErrorResp(404, "Photo not found"))
              /\ UNCHANGED det
       ELSE IF ~(photos[pid].hasPreview \/ photos[pid].onDisk)
         THEN Done(r, "facesDetect", pid, ErrorResp(404, "Image file not found on server"))
              /\ UNCHANGED det
       ELSE /\ req' = [req EXCEPT ![r] = [@ EXCEPT !.route = "facesDetect",
                                                  !.pc = "race", !.photoId = pid]]
            /\ det' = [det EXCEPT ![r] = [state |-> "pending", value |-> <<>>]]
            /\ UNCHANGED resp
  /\ UNCHANGED <<photos, faces, decVars>>
  /\ UNCHANGED extVars

\* How the pending detection call of request r may settle: the list it
\* resolves to and the session variable it leaves.  getScrfd creates the
\* session on first use (InferenceSession.create may reject) and keeps it.
DetectionOutcomes(r) ==
  { LET available == scrfdSession # "null" \/ (modelExists /\ c[2])
    IN [session |-> IF available THEN "session" ELSE scrfdSession,
        list |-> DetectFacesScrfd(DetectionFile(photos[req[r].photoId]),
                                  available, c[3], c[1])] :
      c \in ApiOutputs \X BOOLEAN \X BOOLEAN }

\* the detection call of request r settles with outcome o
Settles(r, o) ==
  /\ det[r].state = "pending"
  /\ scrfdSession' = o.session
  /\ det' = [det EXCEPT ![r] = [state |-> "resolved", value |-> o.list]]
  /\ UNCHANGED <<modelExists, dpc, entry, image, origW, origH, outputs, ret, cause, people>>

\* if (boxes === timeoutSentinel) return res.status(504)...: what the handler
\* does once the race is won by the timer
OnTimeout(r) ==
  /\ req' = [req EXCEPT ![r] = [@ EXCEPT !.pc = "done", !.timedOut = TRUE]]
  /\ resp' = [resp EXCEPT ![r] = TimeoutResp]

\* Promise.race: detectFacesScrfd resolves before the timer fires
FacesDetectResolved(r) ==
  /\ req[r].route = "facesDetect" /\ req[r].pc = "race"
  /\ \E o \in DetectionOutcomes(r) :
       /\ Settles(r, o)
       /\ req' = [req EXCEPT ![r] = [@ EXCEPT !.pc = "persist", !.boxes = o.list]]
  /\ UNCHANGED <<photos, faces, resp>>
  /\ UNCHANGED extVars

\* Promise.race: the timer fires while detectFacesScrfd is still pending
FacesDetectTimeout(r) ==
  /\ req[r].route = "facesDetect" /\ req[r].pc = "race"
  /\ det[r].state = "pending"
  /\ OnTimeout(r)
  /\ UNCHANGED <<photos, faces, det, decVars>>
  /\ UNCHANGED extVars

\* the detection call abandoned by a timed-out request settles later; nothing
\* awaits it any more
AbandonedDetectionSettles(r) ==
  /\ req[r].route = "facesDetect" /\ req[r].timedOut
  /\ \E o \in DetectionOutcomes(r) :
       Settles(r, o)
  /\ UNCHANGED <<photos, faces, req, resp>>
  /\ UNCHANGED extVars

\* lines 978-996: BEGIN, one INSERT per box, COMMIT, then 200.  When a query
\* fails after k inserts the handler issues ROLLBACK and answers 500; the
\* queries go through pool.query, so the k rows are undone only if they ran
\* on the connection that ran BEGIN.
FacesDetectPersist(r) ==
  /\ req[r].route = "facesDetect" /\ req[r].pc = "persist"
  /\ \/ /\ faces' = InsertFaces(faces, req[r].photoId, req[r].boxes, r)
        /\ resp' = [resp EXCEPT ![r] = FacesResp(FaceItems(faces', r))]
     \/ /\ \E k \in 0..(Len(req[r].boxes) - 1), undone \in BOOLEAN :
             faces' = IF undone THEN faces
                      ELSE InsertFaces(faces, req[r].photoId, SubSeq(req[r].boxes, 1, k), r)
        /\ resp' = [resp EXCEPT ![r] = ErrorResp(500, "Detection failed")]
  /\ req' = [req EXCEPT ![r] = [@ EXCEPT !.pc = "done"]]
  /\ UNCHANGED <<photos, det, decVars>>
  /\ UNCHANGED extVars

\* ------------------------------------------------------------ detect-people
\* lines 166-175: SELECT, file check, then await detectPeopleInImage(absPath)
DetectPeopleBegin(r) ==
  /\ Arrives(r)
  /\ \E pid \in PhotoIdsOf(photos) :
       IF pid > Len(photos)
         THEN Done(r, "detectPeople", pid, ErrorResp(404, "Photo not found"))
              /\ UNCHANGED det
       ELSE IF ~(photos[pid].hasPreview \/ photos[pid].onDisk)
         THEN Done(r, "detectPeople", pid, ErrorResp(404, "Image file not found on server"))
              /\ UNCHANGED det
       ELSE /\ req' = [req EXCEPT ![r] = [@ EXCEPT !.route = "detectPeople",
                                                  !.pc = "await", !.photoId = pid]]
            /\ det' = [det EXCEPT ![r] = [state |-> "pending", value |-> <<>>]]
            /\ UNCHANGED resp
  /\ UNCHANGED <<photos, faces, decVars>>
  /\ UNCHANGED extVars

\* lines 175-177: detectPeopleInImage resolves and the result is sent
DetectPeopleResolved(r) ==
  /\ req[r].route = "detectPeople" /\ req[r].pc = "await"
  /\ \E o \in DetectionOutcomes(r) :
       /\ Settles(r, o)
       /\ resp' = [resp EXCEPT ![r] =
                     PeopleResp(DetectPeopleInImage(DetectionFile(photos[req[r].photoId]), o.list))]
  /\ req' = [req EXCEPT ![r] = [@ EXCEPT !.pc = "done"]]
  /\ UNCHANGED <<photos, faces>>
  /\ UNCHANGED extVars

\* ------------------------------------------------------------ bounds (sessions)
MaxCallers == 2           \* concurrent callers of the session getters
MaxCalls == 2             \* calls each of them makes

\* ------------------------------------------------------------ getScrfd, getArcface, getOsnet
\* The three getters (lines 9-15, 17-23, 25-31) have the same body over their
\* own module variable; a session is named by the order in which
\* InferenceSession.create produced it for that model, 0 is null.
Models == {"scrfd", "arcface", "osnet"}
Callers == 1..MaxCallers

NoCaller == [pc |-> "idle", model |-> "scrfd", result |-> 0, calls |-> 0]

InitSes ==
  /\ handle = [m \in Models |-> 0]
  /\ created = [m \in Models |-> 0]
  /\ modelFiles \in [Models -> BOOLEAN]
  /\ caller = [c \in Callers |-> NoCaller]

\* nobody calls the getters directly
InitSesIdle == InitSes /\ modelFiles = [m \in Models |-> TRUE]

\* if (scrfdSession) return scrfdSession;
\* if (!fs.existsSync(modelPath)) throw ...;
\* ... await InferenceSession.create(modelPath): the caller is suspended
GetterEnter(c, m) ==
  /\ caller[c].pc \in {"idle", "returned", "threw"}
  /\ caller[c].calls < MaxCalls
  /\ caller' = [caller EXCEPT ![c] =
       IF handle[m] # 0
         THEN [pc |-> "returned", model |-> m, result |-> handle[m], calls |-> @.calls + 1]
       ELSE IF ~modelFiles[m]
         THEN [pc |-> "threw", model |-> m, result |-> 0, calls |-> @.calls + 1]
       ELSE [pc |-> "creating", model |-> m, result |-> 0, calls |-> @.calls + 1]]
  /\ UNCHANGED <<handle, created, modelFiles>>
  /\ UNCHANGED <<decVars, apiVars, gallery, webVars>>

\* scrfdSession = await InferenceSession.create(modelPath); return scrfdSession;
\* the awaited promise resolved with a new session
GetterCreated(c) ==
  /\ caller[c].pc = "creating"
  /\ LET m == caller[c].model
         fresh == created[m] + 1
     IN /\ created' = [created EXCEPT ![m] = fresh]
        /\ handle' = [handle EXCEPT ![m] = fresh]
        /\ caller' = [caller EXCEPT ![c] = [@ EXCEPT !.pc = "returned", !.result = fresh]]
  /\ UNCHANGED modelFiles
  /\ UNCHANGED <<decVars, apiVars, gallery, webVars>>

\* the awaited promise rejected: the getter throws, the variable stays null
GetterCreateFailed(c) ==
  /\ caller[c].pc = "creating"
  /\ caller' = [caller EXCEPT ![c] = [@ EXCEPT !.pc = "threw"]]
  /\ UNCHANGED <<handle, created, modelFiles>>
  /\ UNCHANGED <<decVars, apiVars, gallery, webVars>>

NextSes ==
  \E c \in Callers :
    \/ \E m \in Models : GetterEnter(c, m)
    \/ GetterCreated(c)
    \/ GetterCreateFailed(c)

\* ------------------------------------------------------------ constants (share links)
\* the values of the test configuration (NODE_ENV === 'test')
MAX_FAILED == 3           \* const MAX_FAILED = ... ? 3 : 5
LOCK_MS == 2000           \* const LOCK_MS = ... ? 2000 : 10 * 60 * 1000
SessionMs == 43200000     \* const exp = Date.now() + 12 * 60 * 60 * 1000
DefaultEvent == 1         \* the seeded event 'Default'

\* ------------------------------------------------------------ bounds (share links)
MaxTicks == 1             \* clock advances in one behaviour
MaxAttempts == 4          \* logins arriving in one behaviour
MaxInFlight == 1          \* login handlers suspended at the same time
MaxRacing == 2            \* login handlers of one key suspended at the same time
MaxEvents == 3            \* event ids handed out in one behaviour
MaxTags == 4              \* tag ids handed out in one behaviour
MaxLinkReqs == 2          \* share link creation requests in progress at once
MaxLinks == 4             \* share link ids handed out in one behaviour

\* ------------------------------------------------------------ index.js: share links, data
Clients == {1, 2}         \* browsers, each with its own address and cookie jar
Slots == 1..MaxInFlight
\* INSERT INTO share_links (event_id, tag_id, token): expires_at is NULL (0)
\* and revoked FALSE by default
ShareLink(id, ev, tag) ==
  [id |-> id, event_id |-> ev, tag_id |-> tag, token |-> id, expires_at |-> 0,
   revoked |-> FALSE]

\* the share links of the deployment: one for Alex of event 1 and one for Bob
\* whose expires_at was set by hand, one millisecond after the start
InitLinks == << ShareLink(1, 1, 1), [ShareLink(2, 1, 3) EXCEPT !.expires_at = 1] >>
Tokens == 0..Len(InitLinks) \* token i belongs to link i, token 0 to no link
Keys == Clients \X Tokens \* const rateKey = `${clientIp}|${req.params.token}`
ObjIds == 1..(Cardinality(Keys) + MaxInFlight + MaxRacing)

TagRow(id, name, ev) == [id |-> id, name |-> name, event_id |-> ev]

\* { count: 0, firstAt: now, lockUntil: 0 }; firstAt is never read
NoRate == [count |-> 0, lockUntil |-> 0]

\* the locals of a login handler:
\* at is const now = Date.now(), rate the object read from failedLoginMap
\* (0: a new object), link and hash what the queries returned;
\* revokedAtArrival records that the link was already revoked on arrival
NoLogin ==
  [pc |-> "free", client |-> 1, token |-> 0, password |-> "", at |-> 0,
   rate |-> 0, link |-> 0, hash |-> "", revokedAtArrival |-> FALSE]

NoSession == [sid |-> 0, eventId |-> 0, tagId |-> 0, shareId |-> 0, exp |-> 0]

\* the response sent last: the route answered, the status and, for a
\* listing, the ids or names listed
NoLast == [route |-> "none", status |-> 0, items |-> {}]

\* what is recorded of the wrong passwords of a key: how many were compared
\* since the last successful login, and when the latest attempt arrived that
\* was the MAX_FAILED-th or a later one (0: none yet)
NoGuesses == [wrong |-> 0, at |-> 0]

\* the requests that create share links, numbered in arrival order
LinkReqs == 1..MaxLinkReqs
NoLinkReq == [pc |-> "new", eventId |-> 0, tagId |-> 0, toCreate |-> {}, made |-> {}]

\* the events of the deployment: the seeded Default and one more
InitEvents == { [id |-> 1, name |-> "Default"], [id |-> 2, name |-> "Wedding"] }

\* LOWER(name) over the names in use
Lower(name) ==
  CASE name \in {"Alex", "ALEX"} -> "alex"
    [] name = "Bob" -> "bob"
    [] name = "Default" -> "default"
    [] OTHER -> name

\* async function getCurrentEventId(): settings.current_event_id, or the id
\* of the event named 'Default' when that is NULL
GetCurrentEventId ==
  IF currentEvent # 0 THEN currentEvent
  ELSE IF \E ev \in events : Lower(ev.name) = "default"
    THEN (CHOOSE ev \in events : Lower(ev.name) = "default").id
  ELSE 0

\* the tables the guarded routes write
Tables == <<photoRows, photoSeq, tags, photoTags, faces>>

\* the photos of the deployment: two of event 1 and two of event 2
InitPhotoRows ==
  { [id |-> 1, event_id |-> 1, description |-> ""],
    [id |-> 2, event_id |-> 1, description |-> ""],
    [id |-> 3, event_id |-> 2, description |-> ""],
    [id |-> 4, event_id |-> 2, description |-> ""] }

\* Alex is a tag of both events, Bob of event 1
InitTags == { TagRow(1, "Alex", 1), TagRow(2, "Alex", 2), TagRow(3, "Bob", 1) }

\* photo 4, of event 2, is linked to the Alex of event 1
InitPhotoTags == { <<1, 1>>, <<2, 3>>, <<3, 2>>, <<4, 1>> }

\* The database of a deployment in use: event 1 'Default' and event 2; the
\* tag Alex in both events and Bob in event 1; photos of both events, one of
\* them (4) an event 2 photo linked to the Alex of event 1; the share links.
InitWeb ==
  /\ now = 0 /\ ticks = 0
  /\ currentEvent \in {1, 2}
  /\ passwordHash \in {"", "secret"}
  /\ photoRows = InitPhotoRows
  /\ photoSeq = Cardinality(InitPhotoRows)
  /\ tags = InitTags
  /\ photoTags = InitPhotoTags
  /\ shareLinks = InitLinks
  /\ personSessions = {}
  /\ failedLoginMap = [k \in Keys |-> 0]
  /\ rateObjs = [i \in ObjIds |-> NoRate]
  /\ cookies = [c \in Clients |-> 0]
  /\ logins = [sl \in Slots |-> NoLogin]
  /\ attempts = 0
  /\ guesses = [k \in Keys |-> NoGuesses]
  /\ events = InitEvents
  /\ eventSeq = Cardinality(InitEvents)
  /\ tagSeq = Cardinality(InitTags)
  /\ linkReqs = [r \in LinkReqs |-> NoLinkReq]
  /\ linkSeq = Len(shareLinks)
  /\ last = NoLast

\* no share route is used
InitWebIdle == InitWeb /\ currentEvent = DefaultEvent /\ passwordHash = ""

\* ------------------------------------------------------------ rate objects
\* failedLoginMap holds objects and a suspended login holds a reference to the
\* object it read; an object nothing refers to any more is garbage
Referenced(map, ls) ==
  ({ map[k] : k \in Keys } \cup { ls[sl].rate : sl \in { t \in DOMAIN ls : ls[t].pc # "free" } })
    \ {0}

Collect(objs, map, ls) ==
  [i \in ObjIds |-> IF i \in Referenced(map, ls) THEN objs[i] ELSE NoRate]

FreshId(map, ls) ==
  CHOOSE i \in ObjIds \ Referenced(map, ls) :
    \A j \in ObjIds \ Referenced(map, ls) : i <= j

\* ------------------------------------------------------------ POST /share/:token/login
\* res.status(st).json(...) of a login handler
LoginAnswer(st) == last' = [NoLast EXCEPT !.route = "login", !.status = st]

\* mutant of Locked: the lock is not looked at
LockedNever(rate, t) == FALSE

\* if (rate.lockUntil && rate.lockUntil > now)
Locked(rate, t) == rate.lockUntil # 0 /\ rate.lockUntil > t

\* mutant of LinkInvalid: the revoked flag is not looked at
LinkInvalidIgnoringRevoked(found, revoked) == ~found

\* if (!link || link.revoked) return res.status(404)
LinkInvalid(found, revoked) == ~found \/ revoked

\* if (link.expires_at && new Date(link.expires_at) < new Date())
LinkExpired(expires_at, t) == expires_at # 0 /\ expires_at < t

\* mutant of PasswordMatches: the result of the comparison is not used
PasswordAlwaysMatches(password, hash) == TRUE

\* const ok = await bcrypt.compare(String(password || ''), hash), the hash
\* kept as the password it was made from
PasswordMatches(password, hash) == password = hash

\* lines 716-723: the rate object of the key is read (a new one when the key
\* is absent); a locked key is answered 429 at once, otherwise the handler
\* awaits the SELECT of the link
LoginArrive(sl, c, token, pw) ==
  /\ logins[sl].pc = "free"
  /\ \A t \in 1..(sl - 1) : logins[t].pc # "free"
  /\ attempts < MaxAttempts
  /\ attempts' = attempts + 1
  /\ UNCHANGED <<now, ticks, currentEvent, passwordHash, photoRows, photoSeq, tags,
                 photoTags, shareLinks, personSessions, failedLoginMap, rateObjs, cookies>>
  /\ UNCHANGED <<decVars, apiVars, sesVars, gallery, adminVars, guesses>>
  /\ LET ref == failedLoginMap[<<c, token>>]
         rate == IF ref = 0 THEN NoRate ELSE rateObjs[ref]
         l == [NoLogin EXCEPT !.pc = "link", !.client = c,
                              !.token = token, !.password = pw, !.at = now,
                              !.rate = ref,
                              !.revokedAtArrival =
                                 (token \in 1..Len(shareLinks) /\ shareLinks[token].revoked)]
     IN IF Locked(rate, now)
          THEN /\ LoginAnswer(429)
               /\ UNCHANGED logins
          ELSE /\ logins' = [logins EXCEPT ![sl] = l]
               /\ UNCHANGED last

\* a login handler returns: its slot is free again
LoginReturns(sl, st) ==
  /\ logins' = [logins EXCEPT ![sl] = NoLogin]
  /\ LoginAnswer(st)

\* lines 724-727: the link is selected by token; 404 for none or a revoked
\* one, 410 for an expired one
LoginLink(sl) ==
  /\ logins[sl].pc = "link"
  /\ UNCHANGED <<now, ticks, currentEvent, passwordHash, photoRows, photoSeq, tags,
                 photoTags, shareLinks, personSessions, failedLoginMap, cookies, attempts>>
  /\ UNCHANGED <<decVars, apiVars, sesVars, gallery, adminVars, guesses>>
  /\ LET found == logins[sl].token \in 1..Len(shareLinks)
         row == IF found THEN shareLinks[logins[sl].token] ELSE ShareLink(0, 0, 0)
     IN IF LinkInvalid(found, row.revoked) THEN LoginReturns(sl, 404)
        ELSE IF LinkExpired(row.expires_at, now) THEN LoginReturns(sl, 410)
        ELSE /\ logins' = [logins EXCEPT ![sl] = [@ EXCEPT !.link = row.id, !.pc = "settings"]]
             /\ UNCHANGED last
  /\ rateObjs' = Collect(rateObjs, failedLoginMap, logins')

\* lines 728-730: the password hash is selected; 503 when none is configured
LoginSettings(sl) ==
  /\ logins[sl].pc = "settings"
  /\ UNCHANGED <<now, ticks, currentEvent, passwordHash, photoRows, photoSeq, tags,
                 photoTags, shareLinks, personSessions, failedLoginMap, cookies, attempts>>
  /\ UNCHANGED <<decVars, apiVars, sesVars, gallery, adminVars, guesses>>
  /\ IF passwordHash = "" THEN LoginReturns(sl, 503)
     ELSE /\ logins' = [logins EXCEPT ![sl] = [@ EXCEPT !.hash = passwordHash, !.pc = "compare"]]
          /\ UNCHANGED last
  /\ rateObjs' = Collect(rateObjs, failedLoginMap, logins')

\* const sid = generateToken(24): a session id no session and no cookie holds
FreshSid ==
  LET used == { x.sid : x \in personSessions } \cup { cookies[c] : c \in Clients }
  IN CHOOSE i \in 1..(Cardinality(used) + 1) : i \notin used /\ \A j \in 1..(i - 1) : j \in used

\* lines 731-751: after bcrypt.compare.  A wrong password counts on the rate
\* object read at arrival, locks the key from the arrival time when the count
\* reaches MAX_FAILED (429) and stores the object (401 otherwise); the right
\* one creates the session, sets the cookie and deletes the key.
LoginCompare(sl) ==
  /\ logins[sl].pc = "compare"
  /\ LET l == logins[sl]
         key == <<l.client, l.token>>
         free == [logins EXCEPT ![sl] = NoLogin]
     IN IF ~PasswordMatches(l.password, l.hash)
          THEN LET id == IF l.rate # 0 THEN l.rate ELSE FreshId(failedLoginMap, logins)
                   old == IF l.rate # 0 THEN rateObjs[l.rate] ELSE NoRate
                   count == old.count + 1
                   new == [count |-> count,
                           lockUntil |-> IF count >= MAX_FAILED THEN l.at + LOCK_MS
                                         ELSE old.lockUntil]
               IN /\ failedLoginMap' = [failedLoginMap EXCEPT ![key] = id]
                  /\ rateObjs' = Collect([rateObjs EXCEPT ![id] = new], failedLoginMap', free)
                  /\ UNCHANGED <<personSessions, cookies>>
                  /\ guesses' = [guesses EXCEPT ![key] =
                        [wrong |-> @.wrong + 1,
                         at |-> IF @.wrong + 1 >= MAX_FAILED THEN l.at ELSE @.at]]
                  /\ LoginReturns(sl, IF count >= MAX_FAILED THEN 429 ELSE 401)
          ELSE /\ personSessions' = personSessions \cup
                    { [sid |-> FreshSid, eventId |-> shareLinks[l.link].event_id,
                       tagId |-> shareLinks[l.link].tag_id, shareId |-> l.link,
                       exp |-> now + SessionMs] }
               /\ cookies' = [cookies EXCEPT ![l.client] = FreshSid]
               /\ failedLoginMap' = [failedLoginMap EXCEPT ![key] = 0]
               /\ rateObjs' = Collect(rateObjs, failedLoginMap', free)
               /\ guesses' = [guesses EXCEPT ![key] = NoGuesses]
               /\ LoginReturns(sl, 200)
  /\ UNCHANGED <<now, ticks, currentEvent, passwordHash, photoRows, photoSeq, tags,
                 photoTags, shareLinks, attempts>>
  /\ UNCHANGED <<decVars, apiVars, sesVars, gallery, adminVars>>

\* lines 752-755: a query or bcrypt.compare rejects: 500 'Login failed'
LoginError(sl) ==
  /\ logins[sl].pc \in {"link", "settings", "compare"}
  /\ UNCHANGED <<now, ticks, currentEvent, passwordHash, photoRows, photoSeq, tags,
                 photoTags, shareLinks, personSessions, failedLoginMap, cookies, attempts>>
  /\ UNCHANGED <<decVars, apiVars, sesVars, gallery, adminVars, guesses>>
  /\ LoginReturns(sl, 500)
  /\ rateObjs' = Collect(rateObjs, failedLoginMap, logins')

\* ------------------------------------------------------------ share links, settings, clock
\* SELECT id FROM tags WHERE event_id = $2 AND LOWER(name) = LOWER($1)
TagsNamed(name, ev) == { t \in tags : t.event_id = ev /\ Lower(t.name) = Lower(name) }

\* DELETE /share-links/:id: UPDATE share_links SET revoked = TRUE WHERE id = $1
RevokeShareLink(id) ==
  /\ shareLinks' = [i \in 1..Len(shareLinks) |->
                      IF shareLinks[i].id = id THEN [shareLinks[i] EXCEPT !.revoked = TRUE]
                      ELSE shareLinks[i]]
  /\ UNCHANGED <<now, ticks, currentEvent, passwordHash, photoRows, photoSeq, tags,
                 photoTags, personSessions, failedLoginMap, rateObjs, cookies,
                 logins, attempts, last>>
  /\ UNCHANGED <<decVars, apiVars, sesVars, gallery, adminVars, guesses>>

Tick(d) ==
  /\ ticks < MaxTicks
  /\ ticks' = ticks + 1
  /\ now' = now + d
  /\ UNCHANGED <<currentEvent, passwordHash, photoRows, photoSeq, tags, photoTags,
                 shareLinks, personSessions, failedLoginMap, rateObjs, cookies,
                 logins, attempts, last>>
  /\ UNCHANGED <<decVars, apiVars, sesVars, gallery, adminVars, guesses>>

\* the logins tried, all from client 1: both passwords on link 1 and the
\* right one on link 2 (which expires)
LoginInputs ==
  { <<1, 1, "secret">>, <<1, 1, "wrong">>, <<1, 2, "secret">> }

\* the logins of one key, client 1 on link 1, with either password
KeyLogins == { <<1, 1, "secret">>, <<1, 1, "wrong">> }

\* the logins of the key handled one after the other: a login arrives only
\* when the one before it has been answered; the clock advances by half the
\* lock time or by all of it
NextSequential ==
  \/ \E in \in KeyLogins : LoginArrive(1, in[1], in[2], in[3])
  \/ LoginLink(1) \/ LoginSettings(1) \/ LoginCompare(1) \/ LoginError(1)
  \/ \E d \in {LOCK_MS \div 2, LOCK_MS} : Tick(d)

\* the logins of the key handled concurrently, the clock standing still
RaceSlots == 1..MaxRacing
NextRace ==
  \/ \E sl \in RaceSlots, in \in KeyLogins : LoginArrive(sl, in[1], in[2], in[3])
  \/ \E sl \in RaceSlots : LoginLink(sl) \/ LoginSettings(sl) \/ LoginCompare(sl)

NextShare ==
  \/ \E sl \in Slots, in \in LoginInputs : LoginArrive(sl, in[1], in[2], in[3])
  \/ \E sl \in Slots : LoginLink(sl) \/ LoginSettings(sl) \/ LoginCompare(sl) \/ LoginError(sl)
  \/ RevokeShareLink(1)
  \/ Tick(LOCK_MS)

\* ------------------------------------------------------------ bounds (person scope)
MaxUploads == 1           \* photos uploaded in one behaviour
MaxDetections == 1        \* Face rows inserted in one behaviour

\* ------------------------------------------------------------ index.js: person scope
\* the session the person_session cookie of client c names, if any
CookieSession(c) == { x \in personSessions : x.sid = cookies[c] }

\* function readPersonScope(req): the session of the cookie, or null
\* (NoSession) without a cookie, for an unknown id or for an expired session
ReadPersonScope(c) ==
  IF cookies[c] = 0 \/ CookieSession(c) = {} THEN NoSession
  ELSE LET sess == CHOOSE x \in CookieSession(c) : TRUE
       IN IF sess.exp < now THEN NoSession ELSE sess

\* if (!sess || sess.exp < Date.now()) personSessions.delete(sid)
AfterReadPersonScope(c) == personSessions \ { x \in CookieSession(c) : x.exp < now }

\* readPersonScope as a route calls it, and what the route has no part in
ScopeReads(c) ==
  /\ personSessions' = AfterReadPersonScope(c)
  /\ UNCHANGED <<now, ticks, currentEvent, passwordHash, shareLinks, failedLoginMap,
                 rateObjs, cookies, logins, attempts>>
  /\ UNCHANGED <<decVars, sesVars, gallery, photos, req, resp, det, linkReqs, linkSeq, guesses>>
  /\ UNCHANGED <<events, eventSeq>>

\* mutant of RequireNoWritesInPersonScope: next() is always called
AlwaysNext(c) == FALSE

\* function requireNoWritesInPersonScope(req, res, next): TRUE when the
\* request is answered 403 instead of being passed on
RequireNoWritesInPersonScope(c) == ReadPersonScope(c) # NoSession

\* what a request of client c leaves alone besides the tables and the response
ScopeFrame(c) == ScopeReads(c) /\ UNCHANGED tagSeq

Answer(route, st, items) == last' = [route |-> route, status |-> st, items |-> items]

\* res.status(403).json({ error: 'Not allowed in personal view' })
Forbidden(route) ==
  /\ Answer(route, 403, {})
  /\ UNCHANGED <<photoRows, photoSeq, tags, photoTags, faces>>

\* the id of the tag of that name in the event (LIMIT 1), 0 when there is none
TagIdNamed(name, ev) ==
  IF TagsNamed(name, ev) = {} THEN 0
  ELSE (CHOOSE t \in TagsNamed(name, ev) : \A u \in TagsNamed(name, ev) : t.id <= u.id).id

\* tags.id SERIAL
NextTagId == tagSeq + 1

\* POST /photos: outside person scope the upload is stored as a photo of the
\* current event
PostPhoto(c) ==
  /\ ScopeFrame(c)
  /\ IF RequireNoWritesInPersonScope(c) THEN Forbidden("POST /photos")
     ELSE /\ photoSeq < Cardinality(InitPhotoRows) + MaxUploads
          /\ photoSeq' = photoSeq + 1
          /\ photoRows' = photoRows \cup
               { [id |-> photoSeq + 1, event_id |-> GetCurrentEventId, description |-> ""] }
          /\ UNCHANGED <<tags, photoTags, faces>>
          /\ Answer("POST /photos", 201, {})

\* POST /photos/:photoId/tags: outside person scope the tag of that name in
\* the current event is looked up without regard to case, inserted when there
\* is none, and linked to the photo (ON CONFLICT DO NOTHING); a photo id that
\* does not exist violates the foreign key (500), and so does the INSERT of a
\* tag when there is no current event (event_id is NOT NULL)
PostPhotoTag(c, pid, name) ==
  /\ ScopeReads(c)
  /\ IF RequireNoWritesInPersonScope(c)
       THEN Forbidden("POST /photos/:photoId/tags") /\ UNCHANGED tagSeq
     ELSE IF GetCurrentEventId = 0
       THEN /\ UNCHANGED <<photoRows, photoSeq, tags, tagSeq, photoTags, faces>>
            /\ Answer("POST /photos/:photoId/tags", 500, {})
     ELSE LET existing == TagIdNamed(name, GetCurrentEventId)
              tagId == IF existing # 0 THEN existing ELSE NextTagId
          IN /\ existing = 0 => tagSeq < MaxTags
             /\ tags' = IF existing # 0 THEN tags
                        ELSE tags \cup { TagRow(tagId, name, GetCurrentEventId) }
             /\ tagSeq' = IF existing # 0 THEN tagSeq ELSE tagSeq + 1
             /\ IF \E ph \in photoRows : ph.id = pid
                  THEN /\ photoTags' = photoTags \cup { <<pid, tagId>> }
                       /\ Answer("POST /photos/:photoId/tags", 200, {})
                  ELSE /\ UNCHANGED photoTags
                       /\ Answer("POST /photos/:photoId/tags", 500, {})
             /\ UNCHANGED <<photoRows, photoSeq, faces>>

\* DELETE /photos/:photoId/tags: outside person scope the link of the photo
\* to the tag of that name in the current event is deleted
DeletePhotoTag(c, pid, name) ==
  /\ ScopeFrame(c)
  /\ IF RequireNoWritesInPersonScope(c) THEN Forbidden("DELETE /photos/:photoId/tags")
     ELSE /\ photoTags' = photoTags \ { <<pid, TagIdNamed(name, GetCurrentEventId)>> }
          /\ UNCHANGED <<photoRows, photoSeq, tags, faces>>
          /\ Answer("DELETE /photos/:photoId/tags", 200, {})

\* DELETE /photos: outside person scope the photos of the ids and their
\* photo_tags are deleted; their faces go with them (ON DELETE CASCADE)
DeletePhotos(c, ids) ==
  /\ ScopeFrame(c)
  /\ IF RequireNoWritesInPersonScope(c) THEN Forbidden("DELETE /photos")
     ELSE /\ photoTags' = { pt \in photoTags : pt[1] \notin ids }
          /\ photoRows' = { ph \in photoRows : ph.id \notin ids }
          /\ faces' = SelectSeq(faces, LAMBDA f : f.photo_id \notin ids)
          /\ UNCHANGED <<photoSeq, tags>>
          /\ Answer("DELETE /photos", 200, {})

\* POST /photos/:photoId/describe: outside person scope the generated text is
\* stored as the description of the photo; 404 for a photo that does not exist
DescribePhoto(c, pid) ==
  /\ ScopeFrame(c)
  /\ IF RequireNoWritesInPersonScope(c) THEN Forbidden("POST /photos/:photoId/describe")
     ELSE /\ photoRows' = { IF ph.id = pid THEN [ph EXCEPT !.description = "generated"]
                            ELSE ph : ph \in photoRows }
          /\ UNCHANGED <<photoSeq, tags, photoTags, faces>>
          /\ Answer("POST /photos/:photoId/describe",
                    IF \E ph \in photoRows : ph.id = pid THEN 200 ELSE 404, {})

\* POST /photos/:photoId/people: outside person scope the boxes are computed
\* and returned, nothing is stored
PeopleOfPhoto(c, pid) ==
  /\ ScopeFrame(c)
  /\ IF RequireNoWritesInPersonScope(c) THEN Forbidden("POST /photos/:photoId/people")
     ELSE /\ UNCHANGED <<photoRows, photoSeq, tags, photoTags, faces>>
          /\ Answer("POST /photos/:photoId/people",
                    IF \E ph \in photoRows : ph.id = pid THEN 200 ELSE 404, {})

\* a face the detector finds in every photo of the deployment
FoundFace ==
  [left |-> Num(100), top |-> Num(100), width |-> Num(200), height |-> Num(200),
   score |-> Num(90)]

\* POST /photos/:photoId/faces:detect, the detection taken as a whole: outside
\* person scope the Face row of the face found is inserted
FacesDetect(c, pid) ==
  /\ ScopeFrame(c)
  /\ IF RequireNoWritesInPersonScope(c) THEN Forbidden("POST /photos/:photoId/faces:detect")
     ELSE IF \E ph \in photoRows : ph.id = pid
       THEN /\ Len(faces) < MaxDetections
            /\ faces' = InsertFaces(faces, pid, <<FoundFace>>, 0)
            /\ UNCHANGED <<photoRows, photoSeq, tags, photoTags>>
            /\ Answer("POST /photos/:photoId/faces:detect", 200, {})
       ELSE /\ UNCHANGED <<photoRows, photoSeq, tags, photoTags, faces>>
            /\ Answer("POST /photos/:photoId/faces:detect", 404, {})

\* the query string of GET /photos: limit and cursor, 0 when absent
PhotoQueries == { [limit |-> 0, cursor |-> 0], [limit |-> 1, cursor |-> 0],
                  [limit |-> 0, cursor |-> 4] }

\* mutant of PhotoListed: the event of the photo is not compared
PhotoListedAnyEvent(ph, scope, eventId) ==
  scope = NoSession \/ <<ph.id, scope.tagId>> \in photoTags

\* WHERE p.event_id = $1 [AND EXISTS (SELECT 1 FROM photo_tags x WHERE
\* x.photo_id = p.id AND x.tag_id = $2)]
PhotoListed(ph, scope, eventId) ==
  /\ ph.event_id = eventId
  /\ scope = NoSession \/ <<ph.id, scope.tagId>> \in photoTags

\* ORDER BY p.id DESC LIMIT n: the n highest ids
Highest(ids, n) == { i \in ids : Cardinality({ j \in ids : j > i }) < n }

\* GET /photos: the photos of the event of the scope, or of the current event
\* outside person scope; in scope only those linked to the tag of the scope
GetPhotos(c, q) ==
  /\ ScopeFrame(c)
  /\ UNCHANGED <<photoRows, photoSeq, tags, photoTags, faces>>
  /\ LET scope == ReadPersonScope(c)
         eventId == IF scope # NoSession THEN scope.eventId ELSE GetCurrentEventId
         all == { ph.id : ph \in { x \in photoRows : PhotoListed(x, scope, eventId) } }
         page == { i \in all : q.cursor = 0 \/ i < q.cursor }
         ids == IF q.limit = 0 THEN page ELSE Highest(page, q.limit)
     IN Answer("GET /photos", 200, { [id |-> i] : i \in ids })

\* GET /tags: in person scope the tag of the scope, if it is of the event of
\* the scope, with count 1; otherwise the tags of the current event with the
\* number of photos linked to each
GetTags(c) ==
  /\ ScopeFrame(c)
  /\ UNCHANGED <<photoRows, photoSeq, tags, photoTags, faces>>
  /\ LET scope == ReadPersonScope(c)
         eventId == IF scope # NoSession THEN scope.eventId ELSE GetCurrentEventId
     IN Answer("GET /tags", 200,
          IF scope # NoSession
            THEN { [name |-> t.name, count |-> 1] :
                     t \in { u \in tags : u.id = scope.tagId /\ u.event_id = eventId } }
            ELSE { [name |-> t.name,
                    count |-> Cardinality({ pt \in photoTags : pt[2] = t.id })] :
                     t \in { u \in tags : u.event_id = eventId } })

\* POST /auth/logout: the session of the cookie is deleted and the cookie cleared
Logout(c) ==
  /\ personSessions' = personSessions \ CookieSession(c)
  /\ cookies' = [cookies EXCEPT ![c] = 0]
  /\ UNCHANGED <<now, ticks, currentEvent, passwordHash, photoRows, photoSeq, tags,
                 photoTags, shareLinks, failedLoginMap, rateObjs, logins, attempts, last>>
  /\ UNCHANGED <<decVars, apiVars, sesVars, gallery, adminVars, guesses>>

\* the session and the cookie a login of client c on a share link leaves
\* when it is answered at time 0 (LoginCompare)
LoggedIn(c, link) ==
  /\ personSessions = { [sid |-> 1, eventId |-> link.event_id, tagId |-> link.tag_id,
                         shareId |-> link.id, exp |-> SessionMs] }
  /\ cookies = [x \in Clients |-> IF x = c THEN 1 ELSE 0]

NextScope ==
  \/ Tick(SessionMs + LOCK_MS)
  \/ \E c \in Clients :
       \/ PostPhoto(c)
       \/ \E name \in {"ALEX", "bob"} : PostPhotoTag(c, 3, name)
       \/ DeletePhotoTag(c, 4, "alex")
       \/ DeletePhotos(c, {2})
       \/ DescribePhoto(c, 1)
       \/ PeopleOfPhoto(c, 1)
       \/ FacesDetect(c, 1)
       \/ \E q \in PhotoQueries : GetPhotos(c, q)
       \/ GetTags(c)
       \/ Logout(c)

\* ------------------------------------------------------------ index.js: events and tags
\* what the event and tag routes have no part in
AdminFrame ==
  /\ UNCHANGED <<now, ticks, passwordHash, personSessions, failedLoginMap, rateObjs,
                 cookies, logins, attempts, guesses, linkReqs, linkSeq>>
  /\ UNCHANGED <<decVars, sesVars, gallery, photos, req, resp, det>>

\* SELECT id FROM events WHERE LOWER(name) = LOWER($1)
EventsNamed(name) == { ev \in events : Lower(ev.name) = Lower(name) }

\* POST /events: 409 when an event of that name exists (whatever the case of
\* its letters), otherwise the event is inserted (201)
PostEvent(name) ==
  /\ AdminFrame
  /\ UNCHANGED <<currentEvent, photoRows, photoSeq, tags, tagSeq, photoTags, shareLinks, faces>>
  /\ IF EventsNamed(name) # {}
       THEN /\ UNCHANGED <<events, eventSeq>>
            /\ Answer("POST /events", 409, {})
       ELSE /\ eventSeq < MaxEvents
            /\ eventSeq' = eventSeq + 1
            /\ events' = events \cup { [id |-> eventSeq + 1, name |-> name] }
            /\ Answer("POST /events", 201, {})

\* DELETE /events/:id, every query succeeding: the event is deleted, and with
\* it (ON DELETE CASCADE) its photos, tags and share links and their
\* photo_tags and faces; settings.current_event_id becomes NULL when it named
\* the event (ON DELETE SET NULL); when the event was the current one the
\* setting is then updated to the id of the event named Default, or to NULL
\* when there is none
DeleteEvent(id) ==
  /\ AdminFrame
  /\ LET cur == GetCurrentEventId
         gonePhotos == { ph.id : ph \in { x \in photoRows : x.event_id = id } }
         goneTags == { t.id : t \in { x \in tags : x.event_id = id } }
         left == { ev \in events : ev.id # id }
         defId == IF \E ev \in left : Lower(ev.name) = "default"
                    THEN (CHOOSE ev \in left : Lower(ev.name) = "default").id ELSE 0
     IN /\ events' = left
        /\ photoRows' = { ph \in photoRows : ph.event_id # id }
        /\ tags' = { t \in tags : t.event_id # id }
        /\ photoTags' = { pt \in photoTags : pt[1] \notin gonePhotos /\ pt[2] \notin goneTags }
        /\ shareLinks' = SelectSeq(shareLinks,
                           LAMBDA l : l.event_id # id /\ l.tag_id \notin goneTags)
        /\ faces' = SelectSeq(faces, LAMBDA f : f.photo_id \notin gonePhotos)
        /\ currentEvent' = IF cur = id THEN defId
                           ELSE IF currentEvent = id THEN 0 ELSE currentEvent
  /\ UNCHANGED <<eventSeq, photoSeq, tagSeq>>
  /\ Answer("DELETE /events/:id", 200, {})

\* POST /settings/event: UPDATE settings SET current_event_id = $1; an id
\* that is no event violates settings_event_fk (500)
SetCurrentEvent(id) ==
  /\ AdminFrame
  /\ UNCHANGED <<events, eventSeq, photoRows, photoSeq, tags, tagSeq, photoTags,
                 shareLinks, faces>>
  /\ IF \E ev \in events : ev.id = id
       THEN currentEvent' = id /\ Answer("POST /settings/event", 200, {})
       ELSE UNCHANGED currentEvent /\ Answer("POST /settings/event", 500, {})

\* PUT /tags/:oldName, every query succeeding: 404 without a source tag of
\* that name in the current event; when the lookup of newName finds a tag the
\* photo_tags of the source are copied to it, those of the source deleted and
\* the source tag deleted; otherwise the source tag is given the new name
PutTag(oldName, newName) ==
  /\ AdminFrame
  /\ UNCHANGED <<currentEvent, events, eventSeq, photoRows, photoSeq, tagSeq, faces>>
  /\ LET eventId == GetCurrentEventId
         srcId == TagIdNamed(oldName, eventId)
         destId == TagIdNamed(newName, eventId)
         copied == photoTags \cup { <<pt[1], destId>> : pt \in { x \in photoTags : x[2] = srcId } }
     IN IF srcId = 0
          THEN /\ UNCHANGED <<tags, photoTags, shareLinks>>
               /\ Answer("PUT /tags/:oldName", 404, {})
        ELSE IF destId # 0
          THEN /\ photoTags' = { pt \in copied : pt[2] # srcId }
               /\ tags' = { t \in tags : t.id # srcId }
               /\ shareLinks' = SelectSeq(shareLinks, LAMBDA l : l.tag_id # srcId)
               /\ Answer("PUT /tags/:oldName", 200, {})
        ELSE /\ tags' = { IF t.id = srcId THEN [t EXCEPT !.name = newName] ELSE t : t \in tags }
             /\ UNCHANGED <<photoTags, shareLinks>>
             /\ Answer("PUT /tags/:oldName", 200, {})

\* the names used in requests
EventNames == { "Party", "default" }
OldNames == { "alex", "bob" }
NewNames == { "Alex", "bob" }

NextEvents ==
  \/ \E name \in EventNames : PostEvent(name)
  \/ \E id \in 1..MaxEvents : DeleteEvent(id)
  \/ \E id \in 1..MaxEvents : SetCurrentEvent(id)
  \/ \E name \in OldNames : PostPhotoTag(2, 1, name)
  \/ \E oldName \in OldNames, newName \in NewNames : PutTag(oldName, newName)

\* ------------------------------------------------------------ index.js: creating share links
\* what the share link routes have no part in
LinkFrame ==
  /\ UNCHANGED <<now, ticks, currentEvent, passwordHash, photoRows, photoSeq, tags,
                 tagSeq, photoTags, personSessions, failedLoginMap, rateObjs, cookies,
                 logins, attempts, guesses, events, eventSeq>>
  /\ UNCHANGED <<decVars, apiVars, sesVars, gallery>>

\* the rows of share_links
LinkRows == { shareLinks[i] : i \in 1..Len(shareLinks) }

\* SELECT tag_id FROM share_links WHERE event_id = $1 AND revoked = FALSE
ActiveTagIds(ev) == { l.tag_id : l \in { x \in LinkRows : x.event_id = ev /\ ~x.revoked } }

\* an index over nothing: every INSERT is admitted
ConflictsNever(ev, tag) == FALSE

\* idx_share_links_active_unique ON share_links (event_id, tag_id) WHERE
\* revoked = FALSE: an INSERT of a second active row for the pair fails
Conflicts(ev, tag) == tag \in ActiveTagIds(ev)

\* INSERT INTO share_links (event_id, tag_id, token) RETURNING id
InsertShareLink(ev, tag) ==
  /\ linkSeq < MaxLinks
  /\ linkSeq' = linkSeq + 1
  /\ shareLinks' = Append(shareLinks, ShareLink(linkSeq + 1, ev, tag))

\* the handler in slot r sends its response
LinkReturns(r, route, st) ==
  /\ linkReqs' = [linkReqs EXCEPT ![r] = NoLinkReq]
  /\ Answer(route, st, {})

\* POST /share-links, up to the revocation: 404 when the current event has no
\* tag of that name
PostShareLinkBegin(r, name) ==
  /\ LinkFrame
  /\ linkReqs[r].pc = "new"
  /\ UNCHANGED <<shareLinks, linkSeq>>
  /\ LET eventId == GetCurrentEventId
         tagId == TagIdNamed(name, eventId)
     IN IF tagId = 0
          THEN LinkReturns(r, "POST /share-links", 404)
          ELSE /\ linkReqs' = [linkReqs EXCEPT ![r] =
                     [NoLinkReq EXCEPT !.pc = "revoke", !.eventId = eventId, !.tagId = tagId]]
               /\ UNCHANGED last

\* UPDATE share_links SET revoked = TRUE WHERE event_id = $1 AND tag_id = $2
\* AND revoked = FALSE
PostShareLinkRevoke(r) ==
  /\ LinkFrame
  /\ linkReqs[r].pc = "revoke"
  /\ shareLinks' = [i \in 1..Len(shareLinks) |->
                      IF /\ shareLinks[i].event_id = linkReqs[r].eventId
                         /\ shareLinks[i].tag_id = linkReqs[r].tagId
                        THEN [shareLinks[i] EXCEPT !.revoked = TRUE]
                        ELSE shareLinks[i]]
  /\ linkReqs' = [linkReqs EXCEPT ![r].pc = "insert"]
  /\ UNCHANGED <<linkSeq, last>>

\* the INSERT of POST /share-links: 201 with the new link, or 500 when the
\* index refuses it
PostShareLinkInsert(r) ==
  /\ LinkFrame
  /\ linkReqs[r].pc = "insert"
  /\ IF Conflicts(linkReqs[r].eventId, linkReqs[r].tagId)
       THEN /\ UNCHANGED <<shareLinks, linkSeq>>
            /\ LinkReturns(r, "POST /share-links", 500)
       ELSE /\ InsertShareLink(linkReqs[r].eventId, linkReqs[r].tagId)
            /\ LinkReturns(r, "POST /share-links", 201)

\* POST /share-links/bulk, the query for the tags of the current event:
\* answered at once when there are none
BulkBegin(r) ==
  /\ LinkFrame
  /\ linkReqs[r].pc = "new"
  /\ UNCHANGED <<shareLinks, linkSeq>>
  /\ LET eventId == GetCurrentEventId
         allTags == { t.id : t \in { x \in tags : x.event_id = eventId } }
     IN IF allTags = {}
          THEN LinkReturns(r, "POST /share-links/bulk", 200)
          ELSE /\ linkReqs' = [linkReqs EXCEPT ![r] =
                     [NoLinkReq EXCEPT !.pc = "existing", !.eventId = eventId,
                                       !.toCreate = allTags]]
               /\ UNCHANGED last

\* the query for the tags that have an active link: toCreate is the rest,
\* and the request is answered when it is empty
BulkExisting(r) ==
  /\ LinkFrame
  /\ linkReqs[r].pc = "existing"
  /\ UNCHANGED <<shareLinks, linkSeq>>
  /\ LET toCreate == linkReqs[r].toCreate \ ActiveTagIds(linkReqs[r].eventId)
     IN IF toCreate = {}
          THEN LinkReturns(r, "POST /share-links/bulk", 200)
          ELSE /\ linkReqs' = [linkReqs EXCEPT ![r].pc = "inserting",
                                               ![r].toCreate = toCreate]
               /\ UNCHANGED last

\* one INSERT of the loop over toCreate (the rows come in no stated order),
\* the last one followed by COMMIT and the answer. An INSERT the index
\* refuses ends the request with 500 after ROLLBACK; BEGIN, the INSERTs and
\* ROLLBACK each go through pool.query and so to any connection of the pool,
\* and the rows already inserted are undone or stay
BulkInsert(r) ==
  /\ LinkFrame
  /\ linkReqs[r].pc = "inserting"
  /\ \E t \in linkReqs[r].toCreate :
       IF Conflicts(linkReqs[r].eventId, t)
         THEN /\ \E undone \in BOOLEAN :
                   shareLinks' = IF undone
                                   THEN SelectSeq(shareLinks,
                                          LAMBDA l : l.id \notin linkReqs[r].made)
                                   ELSE shareLinks
              /\ UNCHANGED linkSeq
              /\ LinkReturns(r, "POST /share-links/bulk", 500)
         ELSE /\ InsertShareLink(linkReqs[r].eventId, t)
              /\ IF linkReqs[r].toCreate = {t}
                   THEN LinkReturns(r, "POST /share-links/bulk", 200)
                   ELSE /\ linkReqs' = [linkReqs EXCEPT
                                          ![r].toCreate = @ \ {t},
                                          ![r].made = @ \cup {linkSeq + 1}]
                        /\ UNCHANGED last

\* the tag names of the requests: zed is the name of no tag
LinkNames == { "alex", "zed" }

NextLinks ==
  \/ \E r \in LinkReqs, name \in LinkNames : PostShareLinkBegin(r, name)
  \/ \E r \in LinkReqs : PostShareLinkRevoke(r) \/ PostShareLinkInsert(r)
  \/ \E r \in LinkReqs : BulkBegin(r) \/ BulkExisting(r) \/ BulkInsert(r)
  \/ \E id \in 1..MaxLinks : RevokeShareLink(id)

\* ------------------------------------------------------------ specifications
NextApi ==
  \E r \in Reqs :
    \/ PostPhotos(r)
    \/ FacesDetectBegin(r)
    \/ FacesDetectResolved(r)
    \/ FacesDetectTimeout(r)
    \/ AbandonedDetectionSettles(r)
    \/ FacesDetectPersist(r)
    \/ DetectPeopleBegin(r)
    \/ DetectPeopleResolved(r)

\* one call of the detector at a time, no request in flight
InitDecode ==
  InitDec /\ InitApi /\ photos = <<>> /\ InitSesIdle /\ InitNoGallery /\ InitWebIdle
SpecDecode == InitDecode /\ [][NextDec]_vars

\* the requests, with the detector call taken as a whole
InitServe == InitDec /\ InitApi /\ InitSesIdle /\ gallery \in Galleries /\ InitWebIdle
SpecApi == InitServe /\ [][NextApi]_vars

\* Every step of a handler is eventually taken and an armed timer eventually
\* fires; nothing makes a detection call settle (inference may hang).
FairSpecApi ==
  /\ SpecApi
  /\ \A r \in Reqs :
       /\ WF_vars(FacesDetectTimeout(r))
       /\ WF_vars(FacesDetectPersist(r))

\* concurrent callers of the session getters, nothing else running
InitSessions ==
  InitDec /\ modelExists /\ InitApi /\ photos = <<>> /\ InitSes /\ InitNoGallery /\ InitWebIdle
SpecSessions == InitSessions /\ [][NextSes]_vars

\* logins on share links, with the person-view password set or not, a link
\* being revoked and time passing; nothing else running
InitShare ==
  /\ InitDec /\ modelExists /\ InitApi /\ photos = <<>> /\ InitSesIdle /\ InitNoGallery
  /\ InitWeb /\ currentEvent = DefaultEvent
SpecShare == InitShare /\ [][NextShare]_vars

\* the logins of one key, one at a time, the password being set
InitSequential == InitShare /\ passwordHash = "secret"
SpecSequential == InitSequential /\ [][NextSequential]_vars

\* the logins of one key, up to MaxRacing of them in progress together
InitRace ==
  /\ InitDec /\ modelExists /\ InitApi /\ photos = <<>> /\ InitSesIdle /\ InitNoGallery
  /\ now = 0 /\ ticks = 0
  /\ currentEvent = DefaultEvent
  /\ passwordHash = "secret"
  /\ photoRows = InitPhotoRows
  /\ photoSeq = Cardinality(InitPhotoRows)
  /\ tags = InitTags
  /\ photoTags = InitPhotoTags
  /\ shareLinks = InitLinks
  /\ personSessions = {}
  /\ failedLoginMap = [k \in Keys |-> 0]
  /\ rateObjs = [i \in ObjIds |-> NoRate]
  /\ cookies = [c \in Clients |-> 0]
  /\ logins = [sl \in RaceSlots |-> NoLogin]
  /\ attempts = 0
  /\ guesses = [k \in Keys |-> NoGuesses]
  /\ events = InitEvents
  /\ eventSeq = Cardinality(InitEvents)
  /\ tagSeq = Cardinality(InitTags)
  /\ linkReqs = [r \in LinkReqs |-> NoLinkReq]
  /\ linkSeq = Len(shareLinks)
  /\ last = NoLast
SpecRace == InitRace /\ [][NextRace]_vars

\* a new deployment after its first upload: the seeded event Default is the
\* current one and holds photo 1; there are no tags, links or sessions
InitAdmin ==
  /\ InitDec /\ modelExists /\ InitApi /\ photos = <<>> /\ InitSesIdle /\ InitNoGallery
  /\ now = 0 /\ ticks = 0
  /\ currentEvent = DefaultEvent
  /\ passwordHash = ""
  /\ photoRows = { [id |-> 1, event_id |-> DefaultEvent, description |-> ""] }
  /\ photoSeq = 1
  /\ tags = {}
  /\ tagSeq = 0
  /\ photoTags = {}
  /\ shareLinks = <<>>
  /\ personSessions = {}
  /\ failedLoginMap = [k \in Keys |-> 0]
  /\ rateObjs = [i \in ObjIds |-> NoRate]
  /\ cookies = [c \in Clients |-> 0]
  /\ logins = [sl \in Slots |-> NoLogin]
  /\ attempts = 0
  /\ guesses = [k \in Keys |-> NoGuesses]
  /\ events = { [id |-> DefaultEvent, name |-> "Default"] }
  /\ eventSeq = 1
  /\ linkReqs = [r \in LinkReqs |-> NoLinkReq]
  /\ linkSeq = Len(shareLinks)
  /\ last = NoLast
SpecEvents == InitAdmin /\ [][NextEvents]_vars

\* the deployment in use with event Default current and no request in progress
InitLinkAdmin == InitShare /\ passwordHash = ""
SpecLinks == InitLinkAdmin /\ [][NextLinks]_vars

\* client 1 has logged in on one of the share links, client 2 has no session;
\* both read and write under either current event, the session expires or is
\* logged out; the detector and the detection requests are idle
InitScope ==
  /\ InitDec /\ modelExists /\ InitApi /\ photos = <<>> /\ InitSesIdle /\ InitNoGallery
  /\ now = 0 /\ ticks = 0
  /\ currentEvent \in {1, 2}
  /\ passwordHash = "secret"
  /\ photoRows = InitPhotoRows
  /\ photoSeq = Cardinality(InitPhotoRows)
  /\ tags = InitTags
  /\ photoTags = InitPhotoTags
  /\ shareLinks = InitLinks
  /\ \E i \in 1..Len(InitLinks) : LoggedIn(1, InitLinks[i])
  /\ failedLoginMap = [k \in Keys |-> 0]
  /\ rateObjs = [i \in ObjIds |-> NoRate]
  /\ logins = [sl \in Slots |-> NoLogin]
  /\ attempts = 1
  /\ guesses = [k \in Keys |-> NoGuesses]
  /\ events = InitEvents
  /\ eventSeq = Cardinality(InitEvents)
  /\ tagSeq = Cardinality(InitTags)
  /\ linkReqs = [r \in LinkReqs |-> NoLinkReq]
  /\ linkSeq = Len(shareLinks)
  /\ last = [NoLast EXCEPT !.route = "login", !.status = 200]
SpecScope == InitScope /\ [][NextScope]_vars

\* ------------------------------------------------------------ claims: decoder
\* the data of the score head and of the box head the decoder reads
ScoreHead(outs) == TensorData(outs, FilterNames(outs, TRUE)[1])
BboxHead(outs) == TensorData(outs, FilterNames(outs, FALSE)[1])

\* detectFacesScrfd has decoded a detector output that has both heads
Decoded == dpc = "returned" /\ cause = "none" /\ ~HeadsAbsent(outputs)

\* the raw anchors that pass the confidence threshold and are not degenerate
PassingAnchors ==
  LET g == LetterboxGeometry(origW, origH)
      bb == BboxHead(outputs)
  IN { i \in 0..((Len(bb) \div 4) - 1) :
         /\ ~BelowThreshold(ScoreAt(ScoreHead(outputs), i))
         /\ ~Degenerate(AnchorBox(bb, i, g)) }

ReturnedAnchors == { ret.value[k].anchor : k \in 1..Len(ret.value) }

\* C1: the list returned by one call of detectFacesScrfd, and the boxes
\* detectPeopleInImage builds from it, have at most 150 entries.
C1_AtMostCap ==
  /\ Len(ret.value) <= MaxFaces
  /\ Len(people.boxes) <= MaxFaces

\* C1 witness: more anchors pass than the cap and the call has returned
C1_Witness ==
  /\ Decoded
  /\ Cardinality(PassingAnchors) > MaxFaces
  /\ Len(ret.value) = MaxFaces

\* C2: when more candidates pass than the cap, the returned ones are the
\* highest-scoring: no dropped candidate has a strictly higher score than a
\* returned candidate.
C2_KeepsHighest ==
  Decoded =>
    \A i \in PassingAnchors \ ReturnedAnchors :
      \A k \in 1..Len(ret.value) :
        ~Lt(ret.value[k].score, ScoreAt(ScoreHead(outputs), i))

\* greatest common divisor of two naturals
RECURSIVE Gcd(_, _)
Gcd(a, b) == IF b = 0 THEN a ELSE Gcd(b, a % b)

\* Overlap of the intervals [l1, l1 + e1] and [l2, l2 + e2]
Overlap(l1, e1, l2, e2) == IntMax(0, IntMin(l1 + e1, l2 + e2) - IntMax(l1, l2))

\* IoU(a, b) > NmsTenths / 10 for two boxes with finite coordinates, i.e.
\* 10 * I > NmsTenths * (A + B - I).  Extents are first divided by a common
\* unit per axis so that the products stay small; IoU does not depend on it.
IoUExceeds(a, b) ==
  /\ ~a.left.nan /\ ~a.top.nan /\ ~a.width.nan /\ ~a.height.nan
  /\ ~b.left.nan /\ ~b.top.nan /\ ~b.width.nan /\ ~b.height.nan
  /\ LET iw == Overlap(a.left.v, a.width.v, b.left.v, b.width.v)
         ih == Overlap(a.top.v, a.height.v, b.top.v, b.height.v)
         ux == Gcd(Gcd(a.width.v, b.width.v), iw)
         uy == Gcd(Gcd(a.height.v, b.height.v), ih)
     IN /\ ux > 0 /\ uy > 0
        /\ LET inter == (iw \div ux) * (ih \div uy)
               areaA == (a.width.v \div ux) * (a.height.v \div uy)
               areaB == (b.width.v \div ux) * (b.height.v \div uy)
           IN 10 * inter > NmsTenths * (areaA + areaB - inter)

\* C3: any two distinct boxes returned for one image have IoU at most the
\* NMS threshold; two identical raw boxes are never both returned.
C3_NoOverlap ==
  \A j, k \in 1..Len(ret.value) :
    j < k => ~IoUExceeds(ret.value[j], ret.value[k])

\* a box lies inside the w x h image; sub is the number of units per pixel
BoxInside(b, w, h, sub) ==
  /\ Le(Num(0), b.left)
  /\ Le(Num(0), b.top)
  /\ Le(Plus(b.left, b.width), Num(w * sub))
  /\ Le(Plus(b.top, b.height), Num(h * sub))

\* C4: every candidate returned by detectFacesScrfd for an origW x origH
\* image has 0 <= left, 0 <= top, left + width <= origW, top + height <= origH.
C4_InBounds ==
  dpc = "returned" =>
    \A k \in 1..Len(ret.value) : BoxInside(ret.value[k], origW, origH, Target)

\* C5: every rounded box in the result of detectPeopleInImage lies inside
\* imageWidth x imageHeight of the same result.
C5_RoundedInBounds ==
  people.set =>
    \A k \in 1..Len(people.boxes) :
      BoxInside(people.boxes[k], people.imageWidth, people.imageHeight, 1)

\* spec: sigmoid(x) >= 0.3 exactly when x >= ln(0.3 / 0.7) = -0.847..., so in
\* hundredths the least raw score whose activation reaches the threshold
LogitOfThreshold == 0 - 84

\* spec: the activated score sigmoid(s) is a number and at least 0.3
ActivatedPasses(s) == ~s.nan /\ s.v >= LogitOfThreshold

\* C16: every candidate returned by detectFacesScrfd has an activated
\* (sigmoid) score of at least the confidence threshold 0.3.
C16_ActivatedAboveThreshold ==
  dpc = "returned" =>
    \A k \in 1..Len(ret.value) : ActivatedPasses(ret.value[k].score)

\* what a completed detection that found no face hands its caller
ZeroFaces == Return(<<>>)

\* C9: with the model file missing or the session failing to initialise, the
\* call does not throw and its outcome differs from that of a successful
\* detection that found zero faces.
C9_UnavailableIsDistinct ==
  (dpc = "returned" /\ cause = "unavailable") => (~ret.threw /\ ret # ZeroFaces)

\* C10: detectFacesScrfd never throws past its boundary; it resolves to a
\* list, which is empty when the score head or the box head is absent and
\* which never holds an anchor for which the score tensor has no entry.
C10_NeverThrows ==
  dpc \in {"returned", "done"} =>
    /\ ~ret.threw
    /\ (cause = "none" /\ HeadsAbsent(outputs)) => ret.value = <<>>
    /\ (cause = "none" /\ ~HeadsAbsent(outputs)) =>
         \A k \in 1..Len(ret.value) : ret.value[k].anchor < Len(ScoreHead(outputs))

\* C10 witness: the detector exposed tensors but not both heads, and the call returned
C10_Witness ==
  /\ dpc = "returned" /\ cause = "none"
  /\ outputs # <<>> /\ HeadsAbsent(outputs)
  /\ ret = Return(<<>>)

\* ------------------------------------------------------------ claims: requests
\* C6: every persisted Face row's bbox lies within [0,width] x [0,height] of
\* the width and height stored on its Photo row at upload.
C6_FaceInsidePhoto ==
  \A k \in 1..Len(faces) :
    LET p == photos[faces[k].photo_id]
    IN p.stored => BoxInside(faces[k].bbox, p.width, p.height, Target)

\* C7, in every state: a faces:detect request whose timer won the race is
\* answered 504 with count 0 and no items, which is not the answer of a
\* completed detection that found nothing, and no Face row is its own; a
\* faces:detect request is answered 200 only after its detection resolved
\* in time.
C7_TimeoutAnswer ==
  \A r \in Reqs :
    /\ req[r].timedOut =>
         /\ resp[r].status = 504 /\ resp[r].count = 0 /\ resp[r].items = <<>>
         /\ resp[r] # FacesResp(<<>>)
         /\ \A k \in 1..Len(faces) : faces[k].by # r
    /\ (req[r].route = "facesDetect" /\ resp[r].status = 200) =>
         (~req[r].timedOut /\ det[r].state = "resolved")

\* C7, in every step: the step that times a request out, and the later
\* settling of the detection call it abandoned, change neither faces nor
\* photos, and the settling changes no response
C7_TimeoutStep ==
  \A r \in Reqs :
    /\ (~req[r].timedOut /\ req'[r].timedOut) => (faces' = faces /\ photos' = photos)
    /\ (req[r].timedOut /\ det'[r] # det[r]) =>
         (faces' = faces /\ photos' = photos /\ resp' = resp)

\* C7 (Scenario C): a detection that does not finish within the timeout gets
\* an explicit timeout answer (504, count 0, no items) distinct from that of
\* a completed detection with zero faces (200, count 0), and the request
\* inserts no Face row and changes no Photo row, even if the abandoned
\* detection completes later.
C7_TimeoutIsExplicit == []C7_TimeoutAnswer /\ [][C7_TimeoutStep]_vars

\* C7 witness: a request was answered 504 and its abandoned detection has
\* since resolved with faces
C7_Witness ==
  \E r \in Reqs :
    /\ req[r].timedOut /\ resp[r].status = 504
    /\ det[r].state = "resolved" /\ det[r].value # <<>>

\* C8: every request that started a detection run (faces:detect and
\* detect-people) eventually receives a response, even if the inference call
\* never completes.
C8_AlwaysResponds ==
  \A r \in Reqs : (req[r].pc \in {"race", "await"}) ~> (resp[r].status # 0)

\* the faces:detect half of C8
C8_FacesDetectResponds ==
  \A r \in Reqs : (req[r].pc = "race") ~> (resp[r].status # 0)

\* the faces:detect requests on photo pid that have been answered
DetectRunsOn(pid) ==
  { r \in Reqs : req[r].route = "facesDetect" /\ req[r].photoId = pid /\ req[r].pc = "done" }

\* C12: after any number of faces:detect runs on the same unchanged photo the
\* stored Face rows are one per surviving detection: when every run on the
\* photo succeeded with the same detections, GET /photos/:photoId/faces lists
\* as many rows as one run found.
C12_OneFacePerDetection ==
  \A pid \in 1..Len(photos) : \A r \in DetectRunsOn(pid) :
    (\A q \in DetectRunsOn(pid) : resp[q].status = 200 /\ req[q].boxes = req[r].boxes)
      => Len(ListFaces(faces, pid)) = Len(req[r].boxes)

\* C14: a Face row's recognized_tag_id is set only after a match at or above
\* the threshold or a human override; nothing in the program computes a
\* similarity or overrides a tag, so every stored Face row, each created by
\* faces:detect, has recognized_tag_id unset.
C14_DetectLeavesTagUnset ==
  \A k \in 1..Len(faces) : faces[k].recognized_tag_id = 0

\* faces:detect has stored a row and answered 200
C14_Witness ==
  \E r \in Reqs :
    /\ req[r].route = "facesDetect" /\ resp[r].status = 200
    /\ \E k \in 1..Len(faces) : faces[k].by = r

\* spec: the match threshold of the example, 0.6 (hundredths)
MatchThreshold == 60

\* spec: the gallery entry with the maximum similarity, the first of them
BestMatch(rows) ==
  CHOOSE k \in 1..Len(rows) :
    /\ \A j \in 1..Len(rows) : rows[j].similarity <= rows[k].similarity
    /\ \A j \in 1..(k - 1) : rows[j].similarity < rows[k].similarity

\* C15: when the best gallery similarity of a detected Face is at or above the
\* match threshold, the stored Face has that entry's tag as recognized tag and
\* the similarity as fused score.
C15_MatchIsStored ==
  \A k \in 1..Len(faces) :
    (gallery # <<>> /\ gallery[BestMatch(gallery)].similarity >= MatchThreshold)
      => /\ faces[k].recognized_tag_id = gallery[BestMatch(gallery)].tag_id
         /\ faces[k].fused_score = Num(gallery[BestMatch(gallery)].similarity)

\* ------------------------------------------------------------ claims: sessions
\* C11: for any interleaving of concurrent calls of a session getter, the
\* session of a model is created at most once and every call that returns
\* gets that same session.
C11_CreatedOnce ==
  \A m \in Models :
    /\ created[m] <= 1
    /\ \A c \in Callers :
         caller[c].pc = "returned" /\ caller[c].model = m => caller[c].result = 1

\* ------------------------------------------------------------ claims: share login
\* the handler in slot sl sends its response in this step
Answers(sl) == logins[sl].pc # "free" /\ logins'[sl].pc = "free"

\* a login arrives and is answered at once, its key being locked
RejectedOnArrival == attempts' = attempts + 1 /\ logins' = logins

\* personSessions.set(sid, ...) is executed in this step
SessionCreated == personSessions' # personSessions

\* the failures counted on the rate object the handler holds
CountHeld(l) == IF l.rate = 0 THEN 0 ELSE rateObjs[l.rate].count

\* the share link row of a token, as the database has it now
LinkOf(token) == shareLinks[token]

\* what the handler in slot sl finds at the point it has reached: the check
\* that fails first, or "none" when the link, the configured password and the
\* submitted password have all passed
FailingCheck(sl) ==
  LET l == logins[sl]
  IN CASE l.pc = "link" /\ (l.token \notin 1..Len(shareLinks) \/ LinkOf(l.token).revoked)
            -> "revoked"
       [] l.pc = "link" /\ LinkOf(l.token).expires_at # 0 /\ LinkOf(l.token).expires_at < now
            -> "expired"
       [] l.pc = "settings" /\ passwordHash = "" -> "unconfigured"
       [] l.pc = "compare" /\ l.password # l.hash -> "mismatch"
       [] OTHER -> "none"

C20_RevokedAnswers404 ==
  [][ /\ \A sl \in Slots, in \in LoginInputs :
           (LoginArrive(sl, in[1], in[2], in[3]) /\ LinkOf(in[2]).revoked
              /\ RejectedOnArrival)
             => last'.status = 404
      /\ \A sl \in Slots :
           Answers(sl) /\ logins[sl].revokedAtArrival /\ last'.status # 500
             => last'.status = 404 /\ ~SessionCreated ]_vars

\* C20 amended: once a share link has been revoked, no later login with its
\* token creates a session; it answers 404, unless its key is locked when it
\* arrives (429) or the query of the link fails (500).
C20_RevokedNeverLogsIn ==
  [][ /\ \A sl \in Slots, in \in LoginInputs :
           (LoginArrive(sl, in[1], in[2], in[3]) /\ LinkOf(in[2]).revoked)
             => /\ ~SessionCreated
                /\ RejectedOnArrival => last'.status = 429
      /\ \A sl \in Slots :
           logins[sl].pc # "free" /\ logins[sl].revokedAtArrival /\ logins'[sl] # logins[sl]
             => /\ Answers(sl)
                /\ last'.status \in {404, 500}
                /\ ~SessionCreated ]_vars

\* C20 witness: a login on link 1 created a session, the link was revoked and
\* a later login with its token has been answered 404
C20_Witness ==
  /\ shareLinks[1].revoked
  /\ \E x \in personSessions : x.shareId = 1
  /\ last.route = "login" /\ last.status = 404

\* ------------------------------------------------------------ claims: person scope
\* the request of client c carries the id of a session that exists and has
\* not expired
HasValidSession(c) == \E x \in personSessions : x.sid = cookies[c] /\ x.exp >= now

SessionCarried(c) == CHOOSE x \in personSessions : x.sid = cookies[c]

\* client c sends one of the seven guarded requests and it is answered
GuardedWrite(c) ==
  \/ PostPhoto(c)
  \/ \E name \in {"ALEX", "bob"} : PostPhotoTag(c, 3, name)
  \/ DeletePhotoTag(c, 4, "alex")
  \/ DeletePhotos(c, {2})
  \/ DescribePhoto(c, 1)
  \/ PeopleOfPhoto(c, 1)
  \/ FacesDetect(c, 1)

\* C17: while a request carries a valid, unexpired person session, POST
\* /photos, POST and DELETE /photos/:photoId/tags, DELETE /photos, describe,
\* people and faces:detect answer 403 and leave photos, tags, photo_tags and
\* faces unchanged.
C17_ScopedWritesRefused ==
  [][ \A c \in Clients :
        HasValidSession(c) /\ GuardedWrite(c) =>
          /\ last'.status = 403
          /\ UNCHANGED Tables ]_vars

\* C17 witness: faces:detect of a client with a valid session has been
\* answered 403, after the same request without a session stored a Face
C17_Witness ==
  /\ \E c \in Clients : HasValidSession(c)
  /\ last.route = "POST /photos/:photoId/faces:detect" /\ last.status = 403
  /\ faces # <<>>

\* C18: in person scope GET /photos returns only photos whose event_id is the
\* event of the session and that are linked to the tag of the session,
\* whatever the current event is and whether or not a tag of the same name
\* exists in another event; GET /tags returns only the tag of the session.
C18_ScopedReads ==
  [][ \A c \in Clients :
        HasValidSession(c) =>
          /\ (\E q \in PhotoQueries : GetPhotos(c, q)) =>
               \A it \in last'.items :
                 \E ph \in photoRows :
                   /\ ph.id = it.id
                   /\ ph.event_id = SessionCarried(c).eventId
                   /\ <<ph.id, SessionCarried(c).tagId>> \in photoTags
          /\ GetTags(c) =>
               \A it \in last'.items :
                 \E t \in tags : t.id = SessionCarried(c).tagId /\ t.name = it.name ]_vars

\* C18 witness: the current event is event 2, the session is for the Alex of
\* event 1, an event 2 photo is linked to that tag and event 2 has an Alex of
\* its own, and GET /photos has returned photo 1 alone
C18_Witness ==
  /\ currentEvent = 2
  /\ \E c \in Clients :
       /\ HasValidSession(c)
       /\ SessionCarried(c).eventId = 1 /\ SessionCarried(c).tagId = 1
  /\ \E ph \in photoRows : ph.event_id = 2 /\ <<ph.id, 1>> \in photoTags
  /\ \E t \in tags : t.event_id = 2 /\ t.name = "Alex"
  /\ last.route = "GET /photos" /\ last.items = { [id |-> 1] }

\* ------------------------------------------------------------ claims: rate limiting
\* the key of the logins of KeyLogins
TheKey == <<1, 1>>

\* the key is inside the lock time that began when the latest of its
\* MAX_FAILED-th or later wrong attempts arrived
InsideLockTime ==
  /\ guesses[TheKey].wrong >= MAX_FAILED
  /\ now < guesses[TheKey].at + LOCK_MS

\* C21: for one key handled sequentially, with no successful login in
\* between, the wrong-password attempts before the MAX_FAILED-th answer 401,
\* the MAX_FAILED-th (and any later one) answers 429, and every attempt that
\* arrives before LOCK_MS has elapsed since then answers 429 and creates no
\* session, whatever its password.
C21_LockAfterMaxFailed ==
  [][ /\ (Answers(1) /\ logins[1].pc = "compare" /\ logins[1].password # logins[1].hash
            /\ last'.status # 500)
          => /\ last'.status =
                  IF guesses[TheKey].wrong + 1 >= MAX_FAILED THEN 429 ELSE 401
             /\ ~SessionCreated
      /\ \A in \in KeyLogins :
           (LoginArrive(1, in[1], in[2], in[3]) /\ InsideLockTime)
             => RejectedOnArrival /\ last'.status = 429
      /\ (InsideLockTime /\ InsideLockTime') => ~SessionCreated ]_vars

\* C21 witness: MAX_FAILED wrong passwords were compared, time has passed but
\* less than LOCK_MS, and one more attempt has been answered 429
C21_Witness ==
  /\ guesses[TheKey].wrong = MAX_FAILED
  /\ now > guesses[TheKey].at /\ InsideLockTime
  /\ attempts = MAX_FAILED + 1
  /\ logins[1].pc = "free"
  /\ last.route = "login" /\ last.status = 429

\* C27: for any interleaving of concurrent logins of one key, at most
\* MAX_FAILED wrong passwords are compared against the stored hash before
\* the key is locked (the clock stands still, so the lock does not run out).
C27_GuessesBounded == guesses[TheKey].wrong <= MAX_FAILED

\* ------------------------------------------------------------ claims: events and tags
\* C22: after any sequence of event creation, current-event switching, photo
\* tagging, tag renaming and tag merging, no photo_tags row links a photo and
\* a tag whose event_id values differ.
C22_LinksWithinEvent ==
  \A pt \in photoTags :
    \A ph \in photoRows, t \in tags :
      ph.id = pt[1] /\ t.id = pt[2] => ph.event_id = t.event_id

\* C23: after any sequence of POST /events, DELETE /events/:id and POST
\* /settings/event requests, settings.current_event_id is non-null and
\* references an existing event.
C23_CurrentEventExists ==
  /\ currentEvent # 0
  /\ \E ev \in events : ev.id = currentEvent

\* C25: every photo linked to the source tag before a successful PUT
\* /tags/:oldName is linked afterwards to a tag of the current event whose name
\* equals newName case-insensitively, whether the request merges or renames
\* and also when the two names differ only in letter case.
C25_RenameKeepsLinks ==
  [][ \A oldName \in OldNames, newName \in NewNames :
        (PutTag(oldName, newName) /\ last'.status = 200) =>
          \A pt \in photoTags :
            pt[2] = TagIdNamed(oldName, GetCurrentEventId) =>
              \E t \in tags' :
                /\ t.event_id = GetCurrentEventId
                /\ Lower(t.name) = Lower(newName)
                /\ <<pt[1], t.id>> \in photoTags' ]_vars

\* ------------------------------------------------------------ claims: share link creation
\* C24: in every reachable state, whatever the interleaving of concurrent
\* POST /share-links and POST /share-links/bulk requests, each (event, tag)
\* pair has at most one share link with revoked = false, and where a newer
\* link of a tag exists the links created before it are revoked.
C24_OneActiveLink ==
  \A i, j \in 1..Len(shareLinks) :
    /\ shareLinks[i].event_id = shareLinks[j].event_id
    /\ shareLinks[i].tag_id = shareLinks[j].tag_id
    /\ shareLinks[i].id < shareLinks[j].id
    => shareLinks[i].revoked

\* C24 witness: two requests were in progress together for a tag, a later
\* link of the tag is active and the earlier ones are revoked
C24_Witness ==
  /\ \E i, j \in 1..Len(shareLinks) :
       /\ shareLinks[i].tag_id = shareLinks[j].tag_id
       /\ shareLinks[i].id < shareLinks[j].id
       /\ shareLinks[i].id > Len(InitLinks)
       /\ shareLinks[i].revoked /\ ~shareLinks[j].revoked
  /\ last.status = 500

\* ------------------------------------------------------------ claims: persistence of detections
\* C26: persistence in faces:detect is all-or-nothing: when an INSERT of the
\* request fails (the request is answered 500 Detection failed), no Face row
\* inserted by that request remains, whatever other requests use the pool.
C26_FailedDetectLeavesNoRows ==
  \A r \in Reqs :
    /\ req[r].route = "facesDetect"
    /\ resp[r] = ErrorResp(500, "Detection failed")
    => \A i \in 1..Len(faces) : faces[i].by # r

====
